---- MODULE Spec2Model ----
(***************************************************************************)
(* Model of the FratGPT extension's screen-region capture pipeline:        *)
(*   - the snip overlay of the content script (isSnipping, overlay,        *)
(*     startX, startY, selectionBox and the listeners it installs),        *)
(*   - compressBase64Image of utils/imageCompression.ts,                   *)
(*   - the CAPTURE_SCREEN / CAPTURE_SNIP handlers of the background        *)
(*     service worker.                                                     *)
(***************************************************************************)
EXTENDS Integers, Sequences, FiniteSets, TLC

(***************************************************************************)
(* Bounds of the model.                                                    *)
(***************************************************************************)
\* pointer coordinates are CoordStep * k for k in 0..MaxCoordIdx
MaxCoordIdx == 3
\* device pixel ratios 1..MaxDpr
MaxDpr == 2

\* lengths of image strings are LenStep * k for k in 0..MaxLenIdx, and EdgeLens
MaxImages == 2
MaxLenIdx == 5
\* capture requests and sends of the side panel that are in flight together are at
\* most MaxInFlight
MaxInFlight == 2

CoordStep == 6
Coords == {CoordStep * k : k \in 0..MaxCoordIdx}
DPRs == 1..MaxDpr

\* "Minimum selection size" of handleMouseUp
MIN_SIZE == 10

Abs(n) == IF n < 0 THEN 0 - n ELSE n
Max(a, b) == IF a >= b THEN a ELSE b
Min(a, b) == IF a < b THEN a ELSE b

null == "null"
\* selectionBox when it is null; otherwise the element's style
NullBox == [display |-> "null", left |-> 0, top |-> 0, width |-> 0, height |-> 0]

(***************************************************************************)
(* State.                                                                  *)
(***************************************************************************)
VARIABLES
  \* ---- content script: module-level variables
  isSnipping,        \* let isSnipping = false
  overlay,           \* let overlay: HTMLDivElement | null
  startX,            \* let startX = 0
  startY,            \* let startY = 0
  selectionBox,      \* let selectionBox: HTMLDivElement | null (its style)
  \* ---- content script: the page it runs in
  documentBody,      \* how many overlay / selection-box elements are children of document.body
  windowListeners,   \* event types with a capture listener of the content script on window
  documentListeners, \* event types with a capture listener of the content script on document
  overlayListeners,  \* event types with a listener on the most recently created overlay element
  devicePixelRatio,  \* window.devicePixelRatio
  \* ---- content script: what the last event did (observation)
  lastEvent,         \* the event or runtime message handled last
  prevKind,          \* kind of the event handled before lastEvent
  phaseBefore,       \* "idle", "armed" or "dragging": the overlay when lastEvent arrived
  preventedNow,      \* a handler of lastEvent called e.preventDefault()
  stoppedNow,        \* a handler of lastEvent called e.stopPropagation()
  sentNow,           \* messages passed to chrome.runtime.sendMessage while handling lastEvent
  responseNow,       \* values passed to sendResponse while handling lastEvent
  snipCompleteCount  \* SNIP_COMPLETE messages sent since the last START_SNIP message

overlayVars == <<isSnipping, overlay, startX, startY, selectionBox, documentBody,
                 windowListeners, documentListeners, overlayListeners,
                 devicePixelRatio, lastEvent, prevKind, phaseBefore,
                 preventedNow, stoppedNow, sentNow, responseNow, snipCompleteCount>>

VARIABLES
  \* ---- background service worker: one capture request
  bgPc,              \* where handleCaptureScreen / handleCaptureSnip is suspended
  bgRequest,         \* the CAPTURE_SCREEN or CAPTURE_SNIP message being handled
  bgImage,           \* dataUrl / fullScreenshot, then croppedImage
  bgResponses,       \* values passed to sendResponse for bgRequest
  bgTab,             \* what chrome.tabs.query gave the handler
  bgSnapshot,        \* width and height of the bitmap decoded from fullScreenshot
  bgCrop,            \* what cropImageWithOffscreenCanvas did with its canvas
  \* ---- utils/imageCompression.ts: the calls of compressBase64Image (observation)
  lastCompress,      \* the last call: arguments, what its awaits did, its outcome
  againCompress      \* compressBase64Image applied to the output of the last call

captureVars == <<bgPc, bgRequest, bgImage, bgResponses, bgTab, bgSnapshot, bgCrop,
                 lastCompress, againCompress>>

VARIABLES
  \* ---- side panel (App): React state and the requests it is waiting for
  sending,            \* const [sending, setSending] = useState(false)
  optimisticMessages, \* const [optimisticMessages, setOptimisticMessages] = useState([])
  error,              \* const [error, setError] = useState('')
  capturing,          \* calls of handleScreen / handleSnipComplete awaiting the response
                      \* to their CAPTURE_SCREEN / CAPTURE_SNIP message, oldest first
  fetches,            \* calls of sendMessage awaiting fetch(url, ...)
  messageListeners,   \* the messageListener closures registered with chrome.runtime.onMessage
  alertNow            \* the text of the alert(...) that is open, "" when there is none

panelVars == <<sending, optimisticMessages, error, capturing, fetches,
               messageListeners, alertNow>>

VARIABLES
  \* ---- handleSnip of the side panel, one click on Snip
  snipRun,            \* where handleSnip is suspended and what it did so far
  contentLoaded       \* a content script of the extension listens in the active tab

snipVars == <<snipRun, contentLoaded>>

VARIABLES
  \* ---- auth bridge: window message listener, SET_TOKEN / REMOVE_TOKEN handlers
  pageOrigin,         \* window.location.origin of the page the content script runs in
  authPc,             \* where the SET_TOKEN / REMOVE_TOKEN handler is suspended
  authRequest,        \* the message being handled and the origin of the window message
  authResponses,      \* values passed to sendResponse for authRequest
  storedToken,        \* fratgpt_token of chrome.storage.sync, "" when there is none
  tokenFrom           \* origin of the window message behind the last change of storedToken

authVars == <<pageOrigin, authPc, authRequest, authResponses, storedToken, tokenFrom>>

VARIABLES
  \* ---- utils/imageCompression.ts: one call of compressMultipleImages (observation)
  multiCall

restVars == <<snipVars, authVars, multiCall>>

vars == <<overlayVars, captureVars, panelVars, restVars>>

PointerTypes == {"mousedown", "mousemove", "mouseup"}

(***************************************************************************)
(* The content script's state as one record, so that the handlers that run *)
(* for one event can be composed.  sent / stopped / prevented belong to    *)
(* the event being dispatched.                                             *)
(***************************************************************************)
ContentState ==
  [isSnipping |-> isSnipping, overlay |-> overlay, startX |-> startX, startY |-> startY,
   selectionBox |-> selectionBox, documentBody |-> documentBody,
   windowListeners |-> windowListeners, documentListeners |-> documentListeners,
   overlayListeners |-> overlayListeners, devicePixelRatio |-> devicePixelRatio,
   sent |-> <<>>, stopped |-> FALSE, prevented |-> FALSE]

\* cancelSnipMode that forgets the window-level and keydown listeners
cancelSnipMode_LeakListeners(s) ==
  IF ~s.isSnipping THEN s
  ELSE [s EXCEPT
          !.isSnipping = FALSE,
          !.overlayListeners = IF s.overlay # null THEN @ \ PointerTypes ELSE @,
          !.documentBody = [overlays |-> IF s.overlay # null /\ @.overlays > 0
                                           THEN @.overlays - 1 ELSE @.overlays,
                            boxes    |-> IF s.selectionBox # NullBox /\ @.boxes > 0
                                           THEN @.boxes - 1 ELSE @.boxes],
          !.overlay = null,
          !.selectionBox = NullBox]

\* function cancelSnipMode()
cancelSnipMode(s) ==
  IF ~s.isSnipping THEN s
  ELSE [s EXCEPT
          !.isSnipping = FALSE,
          !.overlayListeners = IF s.overlay # null THEN @ \ PointerTypes ELSE @,
          !.documentBody = [overlays |-> IF s.overlay # null /\ @.overlays > 0
                                           THEN @.overlays - 1 ELSE @.overlays,
                            boxes    |-> IF s.selectionBox # NullBox /\ @.boxes > 0
                                           THEN @.boxes - 1 ELSE @.boxes],
          !.overlay = null,
          !.windowListeners = @ \ PointerTypes,
          !.selectionBox = NullBox,
          !.documentListeners = @ \ {"keydown"}]

\* startSnipMode without the "if (isSnipping) return" guard
startSnipMode_NoGuard(s) ==
  [s EXCEPT
     !.isSnipping = TRUE,
     !.overlay = "div",
     !.selectionBox = [display |-> "none", left |-> 0, top |-> 0, width |-> 0, height |-> 0],
     !.documentBody = [overlays |-> @.overlays + 1, boxes |-> @.boxes + 1],
     !.overlayListeners = PointerTypes \cup {"contextmenu"},
     !.windowListeners = @ \cup PointerTypes,
     !.documentListeners = @ \cup {"keydown"}]

\* function startSnipMode()
startSnipMode(s) ==
  IF s.isSnipping THEN s
  ELSE [s EXCEPT
          !.isSnipping = TRUE,
          !.overlay = "div",
          !.selectionBox = [display |-> "none", left |-> 0, top |-> 0, width |-> 0, height |-> 0],
          !.documentBody = [overlays |-> @.overlays + 1, boxes |-> @.boxes + 1],
          !.overlayListeners = PointerTypes \cup {"contextmenu"},
          !.windowListeners = @ \cup PointerTypes,
          !.documentListeners = @ \cup {"keydown"}]

\* function handleMouseDown(e)
handleMouseDown(s, e) ==
  IF ~s.isSnipping THEN s
  ELSE [s EXCEPT
          !.prevented = TRUE,
          !.stopped = TRUE,
          !.startX = e.clientX,
          !.startY = e.clientY,
          !.selectionBox = IF @ = NullBox THEN @
                           ELSE [display |-> "block", left |-> e.clientX, top |-> e.clientY,
                                 width |-> 0, height |-> 0]]

\* function handleMouseMove(e)
handleMouseMove(s, e) ==
  IF ~s.isSnipping \/ s.selectionBox = NullBox THEN s
  ELSE IF s.selectionBox.display = "none" THEN s
  ELSE [s EXCEPT
          !.prevented = TRUE,
          !.stopped = TRUE,
          !.selectionBox = [display |-> @.display,
                            left   |-> Min(e.clientX, s.startX),
                            top    |-> Min(e.clientY, s.startY),
                            width  |-> Abs(e.clientX - s.startX),
                            height |-> Abs(e.clientY - s.startY)]]

\* handleMouseUp whose size test uses && instead of ||
handleMouseUp_AndThreshold(s, e) ==
  IF ~s.isSnipping \/ s.selectionBox = NullBox THEN s
  ELSE
    LET s0     == [s EXCEPT !.prevented = TRUE, !.stopped = TRUE]
        width  == Abs(e.clientX - s.startX)
        height == Abs(e.clientY - s.startY)
        left   == Min(e.clientX, s.startX)
        top    == Min(e.clientY, s.startY)
        coords == [x      |-> left * s.devicePixelRatio,
                   y      |-> top * s.devicePixelRatio,
                   width  |-> width * s.devicePixelRatio,
                   height |-> height * s.devicePixelRatio]
        s1     == cancelSnipMode(s0)
    IN IF width < MIN_SIZE /\ height < MIN_SIZE
         THEN s1
         ELSE [s1 EXCEPT !.sent = Append(@, [type |-> "SNIP_COMPLETE", coords |-> coords])]

\* handleMouseUp that sends SNIP_COMPLETE but leaves the overlay up
handleMouseUp_NoTeardown(s, e) ==
  IF ~s.isSnipping \/ s.selectionBox = NullBox THEN s
  ELSE
    LET s0     == [s EXCEPT !.prevented = TRUE, !.stopped = TRUE]
        width  == Abs(e.clientX - s.startX)
        height == Abs(e.clientY - s.startY)
        left   == Min(e.clientX, s.startX)
        top    == Min(e.clientY, s.startY)
        coords == [x      |-> left * s.devicePixelRatio,
                   y      |-> top * s.devicePixelRatio,
                   width  |-> width * s.devicePixelRatio,
                   height |-> height * s.devicePixelRatio]
    IN IF width < MIN_SIZE \/ height < MIN_SIZE
         THEN cancelSnipMode(s0)
         ELSE [s0 EXCEPT !.sent = Append(@, [type |-> "SNIP_COMPLETE", coords |-> coords])]

\* handleMouseUp that sends the rectangle without multiplying by devicePixelRatio
handleMouseUp_CssPixels(s, e) ==
  IF ~s.isSnipping \/ s.selectionBox = NullBox THEN s
  ELSE
    LET s0     == [s EXCEPT !.prevented = TRUE, !.stopped = TRUE]
        width  == Abs(e.clientX - s.startX)
        height == Abs(e.clientY - s.startY)
        left   == Min(e.clientX, s.startX)
        top    == Min(e.clientY, s.startY)
        coords == [x |-> left, y |-> top, width |-> width, height |-> height]
        s1     == cancelSnipMode(s0)
    IN IF width < MIN_SIZE \/ height < MIN_SIZE
         THEN s1
         ELSE [s1 EXCEPT !.sent = Append(@, [type |-> "SNIP_COMPLETE", coords |-> coords])]

\* handleMouseUp that takes the overlay down but leaves the selection box in the page
handleMouseUp_KeepBox(s, e) ==
  IF ~s.isSnipping \/ s.selectionBox = NullBox THEN s
  ELSE
    LET s0     == [s EXCEPT !.prevented = TRUE, !.stopped = TRUE]
        width  == Abs(e.clientX - s.startX)
        height == Abs(e.clientY - s.startY)
        left   == Min(e.clientX, s.startX)
        top    == Min(e.clientY, s.startY)
        coords == [x      |-> left * s.devicePixelRatio,
                   y      |-> top * s.devicePixelRatio,
                   width  |-> width * s.devicePixelRatio,
                   height |-> height * s.devicePixelRatio]
        s1     == cancelSnipMode(s0)
    IN IF width < MIN_SIZE \/ height < MIN_SIZE
         THEN s1
         ELSE [s1 EXCEPT !.documentBody.boxes = s0.documentBody.boxes,
                         !.sent = Append(@, [type |-> "SNIP_COMPLETE", coords |-> coords])]

\* function handleMouseUp(e)
handleMouseUp(s, e) ==
  IF ~s.isSnipping \/ s.selectionBox = NullBox THEN s
  ELSE
    LET s0     == [s EXCEPT !.prevented = TRUE, !.stopped = TRUE]
        width  == Abs(e.clientX - s.startX)
        height == Abs(e.clientY - s.startY)
        left   == Min(e.clientX, s.startX)
        top    == Min(e.clientY, s.startY)
        coords == [x      |-> left * s.devicePixelRatio,
                   y      |-> top * s.devicePixelRatio,
                   width  |-> width * s.devicePixelRatio,
                   height |-> height * s.devicePixelRatio]
        s1     == cancelSnipMode(s0)
    IN IF width < MIN_SIZE \/ height < MIN_SIZE
         THEN s1
         ELSE [s1 EXCEPT !.sent = Append(@, [type |-> "SNIP_COMPLETE", coords |-> coords])]

\* handleKeyDown that tests for the legacy key name "Esc"
handleKeyDown_Esc(s, e) ==
  IF e.key = "Esc" THEN cancelSnipMode(s) ELSE s

\* function handleKeyDown(e)
handleKeyDown(s, e) ==
  IF e.key = "Escape" THEN cancelSnipMode(s) ELSE s

\* the anonymous contextmenu listener that startSnipMode puts on the overlay
handleContextMenu(s, e) ==
  cancelSnipMode([s EXCEPT !.prevented = TRUE, !.stopped = TRUE])

PointerHandler(type, s, e) ==
  CASE type = "mousedown" -> handleMouseDown(s, e)
    [] type = "mousemove" -> handleMouseMove(s, e)
    [] type = "mouseup"   -> handleMouseUp(s, e)

(***************************************************************************)
(* Dispatch of a pointer event of the page.  While an overlay element is   *)
(* in the page it covers the viewport, so it is the event's target; the    *)
(* capture listeners on window run first, then those on the target unless  *)
(* propagation was stopped.  A listener removed meanwhile does not run.    *)
(***************************************************************************)
DispatchPointer(s, type, e) ==
  LET onOverlay == s.overlay # null
      s1 == IF type \in s.windowListeners THEN PointerHandler(type, s, e) ELSE s
  IN IF onOverlay /\ ~s1.stopped /\ type \in s1.overlayListeners
       THEN PointerHandler(type, s1, e)
       ELSE s1

\* listeners the host page may have for the pointer events: the target and phase they
\* were added for, and for capture listeners on window whether they were added before
\* or after startSnipMode added the content script's
HostListeners ==
  {[on |-> "window", capture |-> TRUE, added |-> "before"],
   [on |-> "window", capture |-> TRUE, added |-> "after"],
   [on |-> "document", capture |-> TRUE, added |-> "before"],
   [on |-> "document", capture |-> FALSE, added |-> "before"]}

\* host listener h runs for an event whose dispatch the content script's listeners
\* stopped or not.  window.addEventListener(type, handler, true) puts the handler
\* behind the capture listeners window already has: those run first, and
\* stopImmediatePropagation() in the handler keeps back only what comes after it.
HostListenerRuns(h, stopped) ==
  IF h.on = "window" /\ h.capture /\ h.added = "before" THEN TRUE ELSE ~stopped

DispatchContextMenu(s, e) ==
  IF s.overlay # null /\ "contextmenu" \in s.overlayListeners
    THEN handleContextMenu(s, e)
    ELSE s

DispatchKeyDown(s, e) ==
  IF "keydown" \in s.documentListeners THEN handleKeyDown(s, e) ELSE s

\* chrome.runtime.onMessage listener of the content script
onMessage(s, message) ==
  CASE message.type = "START_SNIP"  -> [state |-> startSnipMode(s), response |-> <<[success |-> TRUE]>>]
    [] message.type = "CANCEL_SNIP" -> [state |-> cancelSnipMode(s), response |-> <<[success |-> TRUE]>>]
    [] OTHER                        -> [state |-> s, response |-> <<>>]

CountSnipComplete(msgs) ==
  Cardinality({i \in 1..Len(msgs) : msgs[i].type = "SNIP_COMPLETE"})

\* the overlay's state of section 4.1: IDLE, ARMED (no pointer-down yet) or DRAGGING
Phase ==
  IF ~isSnipping THEN "idle"
  ELSE IF selectionBox.display = "block" THEN "dragging"
  ELSE "armed"

EvKind(ev) == IF ev.type = "keydown" THEN ev.key ELSE ev.type

\* the content script's variables after an event left it in state s
Commit(s, ev, resp) ==
  /\ prevKind' = EvKind(lastEvent)
  /\ phaseBefore' = Phase
  /\ preventedNow' = s.prevented
  /\ stoppedNow' = s.stopped
  /\ isSnipping' = s.isSnipping
  /\ overlay' = s.overlay
  /\ startX' = s.startX
  /\ startY' = s.startY
  /\ selectionBox' = s.selectionBox
  /\ documentBody' = s.documentBody
  /\ windowListeners' = s.windowListeners
  /\ documentListeners' = s.documentListeners
  /\ overlayListeners' = s.overlayListeners
  /\ devicePixelRatio' = s.devicePixelRatio
  /\ lastEvent' = ev
  /\ sentNow' = s.sent
  /\ responseNow' = resp
  /\ snipCompleteCount' = (IF ev.type = "START_SNIP" THEN 0 ELSE snipCompleteCount)
                            + CountSnipComplete(s.sent)
  /\ UNCHANGED captureVars
  /\ UNCHANGED <<panelVars, restVars>>

NoEvent == [type |-> "load", clientX |-> 0, clientY |-> 0, key |-> ""]
Ev(t, x, y, k) == [type |-> t, clientX |-> x, clientY |-> y, key |-> k]

OverlayInit ==
  /\ isSnipping = FALSE
  /\ overlay = null
  /\ startX = 0
  /\ startY = 0
  /\ selectionBox = NullBox
  /\ documentBody = [overlays |-> 0, boxes |-> 0]
  /\ windowListeners = {}
  /\ documentListeners = {}
  /\ overlayListeners = {}
  /\ devicePixelRatio \in DPRs
  /\ lastEvent = NoEvent
  /\ prevKind = "load"
  /\ phaseBefore = "idle"
  /\ preventedNow = FALSE
  /\ stoppedNow = FALSE
  /\ sentNow = <<>>
  /\ responseNow = <<>>
  /\ snipCompleteCount = 0

\* the side panel sends START_SNIP
StartSnip ==
  LET r == onMessage(ContentState, [type |-> "START_SNIP"])
  IN Commit(r.state, Ev("START_SNIP", 0, 0, ""), r.response)

\* the side panel sends CANCEL_SNIP
CancelSnip ==
  LET r == onMessage(ContentState, [type |-> "CANCEL_SNIP"])
  IN Commit(r.state, Ev("CANCEL_SNIP", 0, 0, ""), r.response)

MouseDown ==
  \E x \in Coords, y \in Coords :
    LET e == Ev("mousedown", x, y, "")
    IN Commit(DispatchPointer(ContentState, "mousedown", e), e, <<>>)

MouseMove ==
  \E x \in Coords, y \in Coords :
    LET e == Ev("mousemove", x, y, "")
    IN Commit(DispatchPointer(ContentState, "mousemove", e), e, <<>>)

MouseUp ==
  \E x \in Coords, y \in Coords :
    LET e == Ev("mouseup", x, y, "")
    IN Commit(DispatchPointer(ContentState, "mouseup", e), e, <<>>)

KeyDown ==
  \E k \in {"Escape", "a"} :
    LET e == Ev("keydown", 0, 0, k)
    IN Commit(DispatchKeyDown(ContentState, e), e, <<>>)

ContextMenu ==
  LET e == Ev("contextmenu", 0, 0, "")
  IN Commit(DispatchContextMenu(ContentState, e), e, <<>>)

\* page zoom or a move to another display changes window.devicePixelRatio
DprChange ==
  \E d \in DPRs \ {devicePixelRatio} :
    Commit([ContentState EXCEPT !.devicePixelRatio = d], Ev("dprchange", 0, 0, ""), <<>>)

OverlayNext ==
  \/ StartSnip
  \/ CancelSnip
  \/ MouseDown
  \/ MouseMove
  \/ MouseUp
  \/ KeyDown
  \/ ContextMenu
  \/ DprChange


(***************************************************************************)
(* utils/imageCompression.ts                                               *)
(*                                                                         *)
(* An image string (data URL) is held as its kind and its length: "png" a  *)
(* well-formed PNG data URL, "jpeg" what blobToBase64 makes of the         *)
(* library's output, "garbage" a string that atob rejects.                 *)
(***************************************************************************)
LenStep == 170496
EdgeLens == {682, 683, 681983, 681984}
Lens == {LenStep * k : k \in 0..MaxLenIdx} \cup EdgeLens
Images == [kind : {"png", "garbage"}, len : Lens]
NoImage == [kind |-> "none", len |-> 0]

\* a JavaScript number that is an integer, NaN or -Infinity
Num(n) == [nan |-> FALSE, inf |-> 0, val |-> n]
NaN == [nan |-> TRUE, inf |-> 0, val |-> 0]
NegInfinity == [nan |-> FALSE, inf |-> -1, val |-> 0]

\* Math.round(n / d) for d > 0: the nearest integer, halves towards +Infinity
RoundRatio(n, d) == (2 * n + d) \div (2 * d)

\* Math.round((length * 0.75) / 1024), in KB
SizeKB(len) == RoundRatio(3 * len, 4096)

\* Math.round(((originalSize - compressedSize) / originalSize) * 100); the quotient is
\* a double, which differs from the exact quotient only when the exact percentage ends
\* in .5 (no length of Lens makes it so)
ReductionPercent(originalSize, compressedSize) ==
  IF originalSize = 0
    THEN IF compressedSize = 0 THEN NaN ELSE NegInfinity
    ELSE Num(RoundRatio((originalSize - compressedSize) * 100, originalSize))

\* "Skip compression for small images (<500KB)"
SKIP_BELOW_KB == 500

\* the options the callers pass; a field that is absent is undefined.  maxSizeMB is
\* held in thousandths (0.3 -> 300), quality in hundredths (0.85 -> 85)
SnipOptions == [maxSizeMB |-> 300, maxWidthOrHeight |-> 1200, quality |-> 85, skipIfSmall |-> TRUE]
ScreenOptions == [maxSizeMB |-> 500, maxWidthOrHeight |-> 1200, quality |-> 85, skipIfSmall |-> TRUE]
OptionChoices ==
  {SnipOptions, ScreenOptions,
   [maxSizeMB |-> 300, maxWidthOrHeight |-> 1200, quality |-> 85, skipIfSmall |-> FALSE],
   [skipIfSmall |-> FALSE],
   [maxSizeMB |-> 300]}

\* const settings = { maxSizeMB: options.maxSizeMB ?? 0.5, ... }
Settings(options) ==
  [maxSizeMB        |-> IF "maxSizeMB" \in DOMAIN options THEN options.maxSizeMB ELSE 500,
   maxWidthOrHeight |-> IF "maxWidthOrHeight" \in DOMAIN options THEN options.maxWidthOrHeight ELSE 1200,
   quality          |-> IF "quality" \in DOMAIN options THEN options.quality ELSE 85,
   skipIfSmall      |-> IF "skipIfSmall" \in DOMAIN options THEN options.skipIfSmall ELSE TRUE]

\* what the awaits inside compressBase64Image do: which of them fails, if any, and the
\* length of the data URL made of the library's output
CompressEnvs ==
  {[fail |-> "none", outLen |-> l] : l \in Lens}
    \cup {[fail |-> f, outLen |-> 0] : f \in {"decode", "library", "encode"}}

\* base64ToFile: atob throws on a string that is not base64
base64ToFileThrows(base64, env) == base64.kind = "garbage" \/ env.fail = "decode"

\* imageCompression(file, {...}) of browser-image-compression rejects
imageCompressionThrows(env) == env.fail = "library"

\* blobToBase64: reader.onerror = reject
blobToBase64Throws(env) == env.fail = "encode"

\* blobToBase64(compressedBlob)
blobToBase64(env) == [kind |-> "jpeg", len |-> env.outLen]

Returned(result, called, caught) ==
  [threw |-> FALSE, value |-> result, libraryCalled |-> called, failed |-> caught]
Threw ==
  [threw |-> TRUE,
   value |-> [compressed |-> NoImage, originalSize |-> 0, compressedSize |-> 0,
              reductionPercent |-> Num(0)],
   libraryCalled |-> TRUE, failed |-> TRUE]

\* compressBase64Image without the try / catch around the conversion
compressBase64Image_NoCatch(base64Image, options, env) ==
  LET settings == Settings(options)
      originalSize == SizeKB(base64Image.len)
      unchanged == [compressed |-> base64Image, originalSize |-> originalSize,
                    compressedSize |-> originalSize, reductionPercent |-> Num(0)]
  IN IF settings.skipIfSmall /\ originalSize < SKIP_BELOW_KB
       THEN Returned(unchanged, FALSE, FALSE)
     ELSE IF base64ToFileThrows(base64Image, env) \/ imageCompressionThrows(env)
               \/ blobToBase64Throws(env)
       THEN Threw
     ELSE
       LET compressedBase64 == blobToBase64(env)
           compressedSize == SizeKB(compressedBase64.len)
       IN Returned([compressed |-> compressedBase64, originalSize |-> originalSize,
                    compressedSize |-> compressedSize,
                    reductionPercent |-> ReductionPercent(originalSize, compressedSize)],
                   TRUE, FALSE)

\* compressBase64Image that skips below settings.maxSizeMB instead of below 500 KB
compressBase64Image_SkipBelowMax(base64Image, options, env) ==
  LET settings == Settings(options)
      originalSize == SizeKB(base64Image.len)
      unchanged == [compressed |-> base64Image, originalSize |-> originalSize,
                    compressedSize |-> originalSize, reductionPercent |-> Num(0)]
  IN IF settings.skipIfSmall /\ originalSize < settings.maxSizeMB
       THEN Returned(unchanged, FALSE, FALSE)
     ELSE IF base64ToFileThrows(base64Image, env)
       THEN Returned(unchanged, FALSE, TRUE)
     ELSE IF imageCompressionThrows(env) \/ blobToBase64Throws(env)
       THEN Returned(unchanged, TRUE, TRUE)
     ELSE
       LET compressedBase64 == blobToBase64(env)
           compressedSize == SizeKB(compressedBase64.len)
       IN Returned([compressed |-> compressedBase64, originalSize |-> originalSize,
                    compressedSize |-> compressedSize,
                    reductionPercent |-> ReductionPercent(originalSize, compressedSize)],
                   TRUE, FALSE)

\* compressBase64Image whose compressedSize forgets the 0.75 of the base64 estimate
compressBase64Image_RawLength(base64Image, options, env) ==
  LET settings == Settings(options)
      originalSize == SizeKB(base64Image.len)
      unchanged == [compressed |-> base64Image, originalSize |-> originalSize,
                    compressedSize |-> originalSize, reductionPercent |-> Num(0)]
  IN IF settings.skipIfSmall /\ originalSize < SKIP_BELOW_KB
       THEN Returned(unchanged, FALSE, FALSE)
     ELSE IF base64ToFileThrows(base64Image, env)
       THEN Returned(unchanged, FALSE, TRUE)
     ELSE IF imageCompressionThrows(env) \/ blobToBase64Throws(env)
       THEN Returned(unchanged, TRUE, TRUE)
     ELSE
       LET compressedBase64 == blobToBase64(env)
           compressedSize == RoundRatio(compressedBase64.len, 1024)
       IN Returned([compressed |-> compressedBase64, originalSize |-> originalSize,
                    compressedSize |-> compressedSize,
                    reductionPercent |-> ReductionPercent(originalSize, compressedSize)],
                   TRUE, FALSE)

\* export async function compressBase64Image(base64Image, options = {})
compressBase64Image(base64Image, options, env) ==
  LET settings == Settings(options)
      originalSize == SizeKB(base64Image.len)
      unchanged == [compressed |-> base64Image, originalSize |-> originalSize,
                    compressedSize |-> originalSize, reductionPercent |-> Num(0)]
  IN IF settings.skipIfSmall /\ originalSize < SKIP_BELOW_KB
       THEN Returned(unchanged, FALSE, FALSE)
     ELSE IF base64ToFileThrows(base64Image, env)
       THEN Returned(unchanged, FALSE, TRUE)
     ELSE IF imageCompressionThrows(env) \/ blobToBase64Throws(env)
       THEN Returned(unchanged, TRUE, TRUE)
     ELSE
       LET compressedBase64 == blobToBase64(env)
           compressedSize == SizeKB(compressedBase64.len)
       IN Returned([compressed |-> compressedBase64, originalSize |-> originalSize,
                    compressedSize |-> compressedSize,
                    reductionPercent |-> ReductionPercent(originalSize, compressedSize)],
                   TRUE, FALSE)

\* one call of compressBase64Image as the model records it
CompressCall(base64Image, options, env) ==
  [called |-> TRUE, input |-> base64Image, options |-> options, env |-> env,
   out |-> compressBase64Image(base64Image, options, env)]
\* the image strings and the behaviour of the awaits that the lists given to
\* compressMultipleImages are made of
MultiImages == {img \in Images : img.len \in {0, LenStep, LenStep * MaxLenIdx}}
MultiEnvs == {env \in CompressEnvs : env.outLen \in {0, LenStep, LenStep * MaxLenIdx}}

\* Promise.all(compressionPromises): rejects when one of the promises rejects,
\* otherwise resolves to their values in the order of the promises
PromiseAll(promises) ==
  [threw |-> \E i \in DOMAIN promises : promises[i].threw,
   value |-> [i \in DOMAIN promises |-> promises[i].value]]

\* compressMultipleImages whose results come in the order in which the compressions
\* were queued last
compressMultipleImages_Reversed(images, options, envs) ==
  LET n == Len(images)
      compressionPromises ==
        [index \in 1..n |-> compressBase64Image(images[n + 1 - index], options,
                                                envs[n + 1 - index])]
  IN PromiseAll(compressionPromises)

\* export async function compressMultipleImages(images, options = {}); the totals
\* after Promise.all are only logged (NaN for an empty list)
compressMultipleImages(images, options, envs) ==
  LET compressionPromises ==
        [index \in 1..Len(images) |-> compressBase64Image(images[index], options,
                                                          envs[index])]
  IN PromiseAll(compressionPromises)

\* one call of compressMultipleImages as the model records it
MultiCall(images, options, envs) ==
  [called |-> TRUE, images |-> images, options |-> options, envs |-> envs,
   out |-> compressMultipleImages(images, options, envs)]
NoMultiCall ==
  [called |-> FALSE, images |-> <<>>, options |-> SnipOptions, envs |-> <<>>,
   out |-> [threw |-> FALSE, value |-> <<>>]]

NoCall ==
  [called |-> FALSE, input |-> NoImage, options |-> SnipOptions,
   env |-> [fail |-> "none", outLen |-> 0],
   out |-> Returned([compressed |-> NoImage, originalSize |-> 0, compressedSize |-> 0,
                     reductionPercent |-> Num(0)], FALSE, FALSE)]

(***************************************************************************)
(* Background service worker: handleCaptureScreen and handleCaptureSnip.   *)
(* Each await is a step: chrome.tabs.query, chrome.tabs.captureVisibleTab, *)
(* cropImageWithOffscreenCanvas, compressBase64Image; what follows an      *)
(* await up to the next one belongs to the same step.                      *)
(***************************************************************************)
NoRect == [x |-> 0, y |-> 0, width |-> 0, height |-> 0]
\* rectangles a CAPTURE_SNIP message carries
SnipRects == [x : {0, 12, 48}, y : {0}, width : {12, 36}, height : {24}]
NoSize == [width |-> 0, height |-> 0]
\* the tab's viewport in CSS pixels: the pointer coordinates lie inside it
Viewport == [width |-> CoordStep * (MaxCoordIdx + 1), height |-> CoordStep * (MaxCoordIdx + 1)]
\* width and height of the PNG that captureVisibleTab returns: the visible area of the
\* tab at the resolution of the display, devicePixelRatio device pixels per CSS pixel
SnapshotSize(dpr) == [width |-> Viewport.width * dpr, height |-> Viewport.height * dpr]
NoRequest == [type |-> "none", coords |-> NoRect]

ErrorResponse(message) == [error |-> message]
IsError(r) == "error" \in DOMAIN r
IsArtifact(r) == "imageData" \in DOMAIN r

\* sendResponse({ imageData: result.compressed, compressionStats: {...} })
ArtifactResponse(result) ==
  [imageData |-> result.compressed,
   compressionStats |-> [originalSize |-> result.originalSize,
                         compressedSize |-> result.compressedSize,
                         reductionPercent |-> result.reductionPercent]]

\* what the awaits inside cropImageWithOffscreenCanvas do, the size of the bitmap that
\* createImageBitmap decodes, and the length of the data URL the FileReader makes of
\* the cropped blob
CropEnvs(bitmap) ==
  {[fail |-> "none", outLen |-> l, bitmap |-> bitmap] : l \in Lens}
    \cup {[fail |-> f, outLen |-> 0, bitmap |-> bitmap] : f \in {"decode", "context", "encode"}}

\* the part of rectangle r that lies inside an image of the given size
ClipToImage(r, size) ==
  LET x0 == Max(r.x, 0)
      y0 == Max(r.y, 0)
      x1 == Min(r.x + r.width, size.width)
      y1 == Min(r.y + r.height, size.height)
  IN IF x1 <= x0 \/ y1 <= y0
       THEN NoRect
       ELSE [x |-> x0, y |-> y0, width |-> x1 - x0, height |-> y1 - y0]

\* ctx.drawImage(image, sx, sy, sw, sh, dx, dy, dw, dh) of the canvas 2D context: the
\* source rectangle is clipped to the image and the destination rectangle is clipped
\* in the same proportion; nothing is drawn when nothing of the source is left.
\* read is the region of the image that is copied, painted the region of the canvas
\* that receives it.
drawImage(image, source, dest) ==
  LET read == ClipToImage(source, image)
  IN IF read = NoRect \/ source.width = 0 \/ source.height = 0
       THEN [read |-> NoRect, painted |-> NoRect]
       ELSE [read |-> read,
             painted |-> [x |-> dest.x + ((read.x - source.x) * dest.width) \div source.width,
                          y |-> dest.y + ((read.y - source.y) * dest.height) \div source.height,
                          width |-> (read.width * dest.width) \div source.width,
                          height |-> (read.height * dest.height) \div source.height]]

NoCrop ==
  [drawn |-> FALSE, canvas |-> NoSize, source |-> NoRect, dest |-> NoRect,
   read |-> NoRect, painted |-> NoRect, image |-> NoSize]

\* cropImageWithOffscreenCanvas whose canvas has the size of the whole bitmap
cropImageWithOffscreenCanvas_FullCanvas(dataUrl, coords, env) ==
  LET canvas == [width |-> env.bitmap.width, height |-> env.bitmap.height]
      source == coords
      dest == [x |-> 0, y |-> 0, width |-> coords.width, height |-> coords.height]
      d == drawImage(env.bitmap, source, dest)
      crop == [drawn |-> TRUE, canvas |-> canvas, source |-> source, dest |-> dest,
               read |-> d.read, painted |-> d.painted, image |-> NoSize]
  IN CASE env.fail \in {"decode", "context"} ->
            [threw |-> TRUE, message |-> env.fail, value |-> NoImage, canvas |-> canvas,
             crop |-> NoCrop]
       [] env.fail = "encode" ->
            [threw |-> TRUE, message |-> env.fail, value |-> NoImage, canvas |-> canvas,
             crop |-> crop]
       [] OTHER ->
            [threw |-> FALSE, message |-> "", value |-> [kind |-> "png", len |-> env.outLen],
             canvas |-> canvas, crop |-> [crop EXCEPT !.image = canvas]]

\* async function cropImageWithOffscreenCanvas(dataUrl, coords): the canvas has the size
\* coords.width x coords.height and receives the source rectangle coords at (0, 0) in
\* the same size; the PNG made of the canvas has the canvas's size; any failure is
\* rethrown
cropImageWithOffscreenCanvas(dataUrl, coords, env) ==
  LET canvas == [width |-> coords.width, height |-> coords.height]
      source == coords
      dest == [x |-> 0, y |-> 0, width |-> coords.width, height |-> coords.height]
      d == drawImage(env.bitmap, source, dest)
      crop == [drawn |-> TRUE, canvas |-> canvas, source |-> source, dest |-> dest,
               read |-> d.read, painted |-> d.painted, image |-> NoSize]
  IN CASE env.fail \in {"decode", "context"} ->
            [threw |-> TRUE, message |-> env.fail, value |-> NoImage, canvas |-> canvas,
             crop |-> NoCrop]
       [] env.fail = "encode" ->
            [threw |-> TRUE, message |-> env.fail, value |-> NoImage, canvas |-> canvas,
             crop |-> crop]
       [] OTHER ->
            [threw |-> FALSE, message |-> "", value |-> [kind |-> "png", len |-> env.outLen],
             canvas |-> canvas, crop |-> [crop EXCEPT !.image = canvas]]

CaptureInit ==
  /\ bgPc = "idle"
  /\ bgRequest = NoRequest
  /\ bgImage = NoImage
  /\ bgResponses = <<>>
  /\ bgTab = "none"
  /\ bgSnapshot = NoSize
  /\ bgCrop = NoCrop
  /\ lastCompress = NoCall
  /\ againCompress = NoCall

\* chrome.runtime.onMessage: CAPTURE_SCREEN or CAPTURE_SNIP arrives
BgReceive ==
  /\ bgPc \in {"idle", "done"}
  /\ \E m \in {[type |-> "CAPTURE_SCREEN", coords |-> NoRect]}
                \cup {[type |-> "CAPTURE_SNIP", coords |-> r] : r \in SnipRects} :
       bgRequest' = m
  /\ bgPc' = "query"
  /\ bgImage' = NoImage
  /\ bgResponses' = <<>>
  /\ bgTab' = "none"
  /\ bgSnapshot' = NoSize
  /\ bgCrop' = NoCrop
  /\ lastCompress' = NoCall
  /\ againCompress' = NoCall
  /\ UNCHANGED <<overlayVars, panelVars, restVars>>

\* the results of chrome.tabs.query({ active: true, currentWindow: true }): a tab, a
\* tab without id, no tab at all, or a rejected promise
TabResults == {"tab", "no id", "no tab", "rejects"}

\* the handler that goes on to the capture when the tab has no id
BgQueryTab_IgnoreMissingId ==
  /\ bgPc = "query"
  /\ \E r \in TabResults :
       /\ bgTab' = r
       /\ IF r \in {"tab", "no id"}
            THEN /\ bgPc' = "capture"
                 /\ bgResponses' = bgResponses
            ELSE /\ bgPc' = "done"
                 /\ bgResponses' = Append(bgResponses,
                      ErrorResponse(CASE r = "no tab" -> "Cannot read properties of undefined"
                                      [] OTHER        -> "query rejected"))
  /\ UNCHANGED <<bgRequest, bgImage, bgSnapshot, bgCrop, lastCompress, againCompress, overlayVars, panelVars, restVars>>

\* const [tab] = await chrome.tabs.query(...); if (!tab.id) { sendResponse({error}) }
BgQueryTab ==
  /\ bgPc = "query"
  /\ \E r \in TabResults :
       /\ bgTab' = r
       /\ IF r = "tab"
            THEN /\ bgPc' = "capture"
                 /\ bgResponses' = bgResponses
            ELSE /\ bgPc' = "done"
                 /\ bgResponses' = Append(bgResponses,
                      ErrorResponse(CASE r = "no id"  -> "No active tab"
                                      [] r = "no tab" -> "Cannot read properties of undefined"
                                      [] OTHER        -> "query rejected"))
  /\ UNCHANGED <<bgRequest, bgImage, bgSnapshot, bgCrop, lastCompress, againCompress, overlayVars, panelVars, restVars>>

\* await chrome.tabs.captureVisibleTab({ format: 'png' })
BgCaptureVisibleTab ==
  /\ bgPc = "capture"
  /\ \/ \E l \in Lens :
          /\ bgImage' = [kind |-> "png", len |-> l]
          /\ bgSnapshot' = SnapshotSize(devicePixelRatio)
          /\ bgPc' = IF bgRequest.type = "CAPTURE_SNIP" THEN "crop" ELSE "compress"
          /\ bgResponses' = bgResponses
     \/ /\ bgImage' = bgImage
        /\ bgSnapshot' = bgSnapshot
        /\ bgPc' = "done"
        /\ bgResponses' = Append(bgResponses, ErrorResponse("capture failed"))
  /\ UNCHANGED <<bgTab, bgRequest, bgCrop, lastCompress, againCompress, overlayVars, panelVars, restVars>>

\* the handler whose catch does not answer when the crop throws
BgCrop_SilentCatch ==
  /\ bgPc = "crop"
  /\ \E env \in CropEnvs(bgSnapshot) :
       LET r == cropImageWithOffscreenCanvas(bgImage, bgRequest.coords, env)
       IN /\ bgCrop' = r.crop
          /\ IF r.threw
               THEN /\ bgImage' = bgImage
                    /\ bgPc' = "done"
                    /\ bgResponses' = bgResponses
               ELSE /\ bgImage' = r.value
                    /\ bgPc' = "compress"
                    /\ bgResponses' = bgResponses
  /\ UNCHANGED <<bgTab, bgRequest, bgSnapshot, lastCompress, againCompress, overlayVars, panelVars, restVars>>

\* const croppedImage = await cropImageWithOffscreenCanvas(fullScreenshot, coords)
BgCrop ==
  /\ bgPc = "crop"
  /\ \E env \in CropEnvs(bgSnapshot) :
       LET r == cropImageWithOffscreenCanvas(bgImage, bgRequest.coords, env)
       IN /\ bgCrop' = r.crop
          /\ IF r.threw
               THEN /\ bgImage' = bgImage
                    /\ bgPc' = "done"
                    /\ bgResponses' = Append(bgResponses, ErrorResponse(r.message))
               ELSE /\ bgImage' = r.value
                    /\ bgPc' = "compress"
                    /\ bgResponses' = bgResponses
  /\ UNCHANGED <<bgTab, bgRequest, bgSnapshot, lastCompress, againCompress, overlayVars, panelVars, restVars>>

\* const result = await compressBase64Image(...); sendResponse({ imageData, ... })
BgCompress ==
  /\ bgPc = "compress"
  /\ \E env \in CompressEnvs :
       LET call == CompressCall(bgImage,
                                IF bgRequest.type = "CAPTURE_SNIP" THEN SnipOptions
                                                                   ELSE ScreenOptions,
                                env)
       IN /\ lastCompress' = call
          /\ bgResponses' = Append(bgResponses,
                                   IF call.out.threw
                                     THEN ErrorResponse("compression failed")
                                     ELSE ArtifactResponse(call.out.value))
  /\ bgPc' = "done"
  /\ UNCHANGED <<bgTab, bgRequest, bgImage, bgSnapshot, bgCrop, againCompress, overlayVars, panelVars, restVars>>

\* any other caller of compressBase64Image, with any image string and options (the
\* model watches one such call and what follows it)
CallCompress ==
  /\ bgPc = "idle"
  /\ ~lastCompress.called
  /\ \E img \in Images, options \in OptionChoices, env \in CompressEnvs :
       lastCompress' = CompressCall(img, options, env)
  /\ againCompress' = NoCall
  /\ UNCHANGED <<bgTab, bgPc, bgRequest, bgImage, bgResponses, bgSnapshot, bgCrop, overlayVars, panelVars, restVars>>

\* the output of the last call is compressed once more, with the same options
CallCompressAgain ==
  /\ bgPc = "idle"
  /\ lastCompress.called
  /\ ~lastCompress.out.threw
  /\ ~againCompress.called
  /\ \E env \in CompressEnvs :
       againCompress' = CompressCall(lastCompress.out.value.compressed,
                                     lastCompress.options, env)
  /\ UNCHANGED <<bgTab, bgPc, bgRequest, bgImage, bgResponses, bgSnapshot, bgCrop, lastCompress, overlayVars, panelVars, restVars>>

\* a caller of compressMultipleImages, with any list of image strings and options
CallCompressMultiple ==
  /\ ~multiCall.called
  /\ \E n \in 0..MaxImages, options \in OptionChoices :
       \E images \in [1..n -> MultiImages], envs \in [1..n -> MultiEnvs] :
         multiCall' = MultiCall(images, options, envs)
  /\ UNCHANGED <<snipVars, authVars>>
  /\ UNCHANGED <<overlayVars, captureVars, panelVars>>

\* the caller drops the results
ForgetMultiple ==
  /\ multiCall.called
  /\ multiCall' = NoMultiCall
  /\ UNCHANGED <<snipVars, authVars>>
  /\ UNCHANGED <<overlayVars, captureVars, panelVars>>

MultipleNext ==
  \/ CallCompressMultiple
  \/ ForgetMultiple

CaptureNext ==
  \/ BgReceive
  \/ BgQueryTab
  \/ BgCaptureVisibleTab
  \/ BgCrop
  \/ BgCompress
  \/ CallCompress
  \/ CallCompressAgain

(***************************************************************************)
(* Side panel (sidepanel/App.tsx).  handleScreen and handleSnipComplete    *)
(* send their capture message and are suspended until the response comes;  *)
(* sendMessage is suspended at its fetch.  Each part between two awaits is *)
(* one step.  The service worker's handlers share no variable, so the      *)
(* model follows the capture requests one after the other, oldest first.   *)
(* alert(...) blocks the side panel until the user dismisses it: no other   *)
(* step of the side panel runs while alertNow holds its text.  The input   *)
(* text and the response time are left out.                                *)
(***************************************************************************)
\* setOptimisticMessages([userMessage, thinkingMessage])
Placeholders(source) ==
  <<[role |-> "USER", content |-> "Solve this problem", source |-> source],
    [role |-> "ASSISTANT", content |-> "Thinking...", source |-> ""]>>

\* the React state of App as one record
PanelState ==
  [sending |-> sending, optimisticMessages |-> optimisticMessages, error |-> error,
   fetches |-> fetches, messageListeners |-> messageListeners, alert |-> alertNow]

\* the effect that listens for SNIP_COMPLETE, deps [token, mode, session], without its
\* cleanup
messageListenerEffect_NoCleanup(listeners, closure) ==
  Append(listeners, closure)

\* useEffect(() => { addListener(messageListener); return () => removeListener(...) },
\* [token, mode, session]) when a dependency changed: React runs the cleanup of the
\* previous run, then the effect.  A closure is held as what it sees of the session.
messageListenerEffect(listeners, closure) ==
  Append(SubSeq(listeners, 1, Len(listeners) - 1), closure)

\* the callback of chrome.runtime.sendMessage runs without a response when the channel
\* closed before the service worker answered
UndefinedResponse == [undefined |-> TRUE]
IsUndefined(r) == "undefined" \in DOMAIN r
\* if (response.error)
HasError(r) == IsError(r) /\ r.error # ""

RemoveAt(seq, i) == SubSeq(seq, 1, i - 1) \o SubSeq(seq, i + 1, Len(seq))

\* what fetch(url, ...) and res.json() bring
FetchOutcomes == {"ok", "DAILY_LIMIT_REACHED", "not ok", "rejects"}

\* const sendMessage = async (text, imageData?, captureSource?): up to await fetch(...);
\* of the request body the model keeps whether it carries imageData
sendMessage(p, imageData, captureSource) ==
  [p EXCEPT !.sending = TRUE,
            !.error = "",
            !.fetches = Append(@, [imageData |-> imageData])]

\* sendMessage from the return of its fetch to its end; finally { setSending(false) }
sendMessageSettled(p, i, outcome) ==
  LET q == [p EXCEPT !.fetches = RemoveAt(@, i), !.sending = FALSE]
  IN CASE outcome = "ok" ->
            [q EXCEPT !.optimisticMessages = <<>>,
                      !.messageListeners = messageListenerEffect(@, [session |-> "data"])]
       [] outcome = "DAILY_LIMIT_REACHED" ->
            [q EXCEPT !.error = "Daily limit reached!"]
       [] OTHER ->
            [q EXCEPT !.error = "Request failed", !.optimisticMessages = <<>>]

\* handleScreen that returns on an error response without telling the user
handleScreen_SilentError(p, response) ==
  IF IsUndefined(response)
    THEN [p EXCEPT !.optimisticMessages = <<>>]
  ELSE IF HasError(response)
    THEN p
  ELSE sendMessage([p EXCEPT !.optimisticMessages = Placeholders("SCREEN")],
                   IsArtifact(response), "SCREEN")

\* handleScreen from the response to its CAPTURE_SCREEN message on; response.error of
\* an undefined response throws a TypeError, which the catch block handles
handleScreen(p, response) ==
  IF IsUndefined(response)
    THEN [p EXCEPT !.alert = "Failed to capture screen", !.optimisticMessages = <<>>]
  ELSE IF HasError(response)
    THEN [p EXCEPT !.alert = "Failed to capture screen: "]
  ELSE sendMessage([p EXCEPT !.optimisticMessages = Placeholders("SCREEN")],
                   IsArtifact(response), "SCREEN")

\* handleSnipComplete that sends the image although the response is an error
handleSnipComplete_IgnoreError(p, response) ==
  sendMessage([p EXCEPT !.optimisticMessages = Placeholders("SNIP")], TRUE, "SNIP")

\* handleSnipComplete from the response to its CAPTURE_SNIP message on; the catch block
\* alerts 'Failed to capture snip: ' + error.message
handleSnipComplete(p, response) ==
  IF IsUndefined(response)
    THEN [p EXCEPT !.alert = "Failed to capture snip: Cannot read properties of undefined",
                   !.optimisticMessages = <<>>]
  ELSE IF HasError(response)
    THEN [p EXCEPT !.alert = "Failed to capture snip: "]
  ELSE sendMessage([p EXCEPT !.optimisticMessages = Placeholders("SNIP")],
                   IsArtifact(response), "SNIP")

\* the React state after a step left it as p
CommitPanel(p) ==
  /\ sending' = p.sending
  /\ optimisticMessages' = p.optimisticMessages
  /\ error' = p.error
  /\ fetches' = p.fetches
  /\ messageListeners' = p.messageListeners
  /\ alertNow' = p.alert

\* capture requests and sends that may be in flight together
InFlight == Len(capturing) + Len(fetches)

\* a capture message as the service worker receives it
AsMessage(call) == [type |-> call.type, coords |-> call.coords]

\* handleSnipComplete that scales the coordinates it forwards once more
forwardCoords_Rescaled(coords, dpr) ==
  [x |-> coords.x * dpr, y |-> coords.y * dpr,
   width |-> coords.width * dpr, height |-> coords.height * dpr]

\* chrome.runtime.sendMessage({ type: 'CAPTURE_SNIP', coords }): the coordinates of
\* SNIP_COMPLETE go on as they came
forwardCoords(coords, dpr) == coords

\* the calls of handleSnipComplete that the SNIP_COMPLETE messages in sent start; css
\* and ratio keep, for the properties, the rectangle the user dragged and the ratio at
\* pointer-up
SnipCalls(s, sent, e) ==
  [i \in 1..Len(sent) |->
     [type |-> "CAPTURE_SNIP",
      coords |-> forwardCoords(sent[i].coords, s.devicePixelRatio),
      css |-> [x |-> Min(e.clientX, s.startX), y |-> Min(e.clientY, s.startY),
               width |-> Abs(e.clientX - s.startX), height |-> Abs(e.clientY - s.startY)],
      ratio |-> s.devicePixelRatio]]

\* what each of the registered listeners does with the messages of one pointer-up
RECURSIVE ListenerCalls(_, _)
ListenerCalls(listeners, calls) ==
  IF listeners = <<>> THEN <<>> ELSE calls \o ListenerCalls(Tail(listeners), calls)

\* the content script's own variables after a handler left it in state s, and the
\* messages the handler sent; what else the overlay's properties observe of the last
\* event is not kept here
CommitContent(s) ==
  /\ isSnipping' = s.isSnipping
  /\ overlay' = s.overlay
  /\ startX' = s.startX
  /\ startY' = s.startY
  /\ selectionBox' = s.selectionBox
  /\ documentBody' = s.documentBody
  /\ windowListeners' = s.windowListeners
  /\ documentListeners' = s.documentListeners
  /\ overlayListeners' = s.overlayListeners
  /\ devicePixelRatio' = s.devicePixelRatio
  /\ sentNow' = s.sent
  /\ UNCHANGED <<lastEvent, prevKind, phaseBefore, preventedNow, stoppedNow,
                 responseNow, snipCompleteCount>>

PanelInit ==
  /\ sending = FALSE
  /\ optimisticMessages = <<>>
  /\ error = ""
  /\ capturing = <<>>
  /\ fetches = <<>>
  /\ messageListeners = <<[session |-> "null"]>>
  /\ alertNow = ""

\* click on Screen (disabled={sending}): handleScreen sends CAPTURE_SCREEN and awaits
ClickScreen ==
  /\ alertNow = ""
  /\ ~sending
  /\ InFlight < MaxInFlight
  /\ capturing' = Append(capturing, [type |-> "CAPTURE_SCREEN", coords |-> NoRect,
                                     css |-> NoRect, ratio |-> 0])
  /\ UNCHANGED <<sending, optimisticMessages, error, fetches, messageListeners, alertNow>>
  /\ UNCHANGED <<overlayVars, captureVars, restVars>>

\* click on Snip (disabled={sending}): handleSnip sends START_SNIP to the content
\* script of the active tab
ClickSnip ==
  /\ alertNow = ""
  /\ ~sending
  /\ CommitContent(onMessage(ContentState, [type |-> "START_SNIP"]).state)
  /\ UNCHANGED <<panelVars, captureVars, restVars>>

\* the points where the user presses and releases the pointer over the overlay
DragStarts == {[x |-> CoordStep, y |-> 0]}
DragEnds == {[x |-> 2 * CoordStep, y |-> CoordStep * MaxCoordIdx],
             [x |-> CoordStep * MaxCoordIdx, y |-> CoordStep * MaxCoordIdx]}

\* the user presses the pointer on the armed overlay
DragStart ==
  /\ Phase = "armed"
  /\ \E pt \in DragStarts :
       CommitContent(DispatchPointer(ContentState, "mousedown",
                                     Ev("mousedown", pt.x, pt.y, "")))
  /\ UNCHANGED <<panelVars, captureVars, restVars>>

\* the user releases it: handleMouseUp runs, and for each SNIP_COMPLETE it sends the
\* side panel's messageListener calls handleSnipComplete(message.coords), which sends
\* CAPTURE_SNIP and awaits
DragEnd ==
  /\ alertNow = ""
  /\ Phase = "dragging"
  /\ InFlight < MaxInFlight
  /\ \E pt \in DragEnds :
       LET e == Ev("mouseup", pt.x, pt.y, "")
           s == DispatchPointer(ContentState, "mouseup", e)
       IN /\ CommitContent(s)
          /\ capturing' = capturing \o ListenerCalls(messageListeners,
                                                     SnipCalls(ContentState, s.sent, e))
  /\ UNCHANGED <<sending, optimisticMessages, error, fetches, messageListeners, alertNow>>
  /\ UNCHANGED <<captureVars, restVars>>

\* page zoom or a move to another display changes window.devicePixelRatio
PanelDprChange ==
  /\ \E d \in DPRs \ {devicePixelRatio} :
       CommitContent([ContentState EXCEPT !.devicePixelRatio = d])
  /\ UNCHANGED <<panelVars, captureVars, restVars>>

\* chrome.runtime.onMessage of the service worker: the oldest capture message of the
\* side panel that has no response yet
BgReceiveFromPanel ==
  /\ bgPc = "idle"
  /\ capturing # <<>>
  /\ bgRequest' = AsMessage(Head(capturing))
  /\ bgPc' = "query"
  /\ bgImage' = NoImage
  /\ bgResponses' = <<>>
  /\ bgTab' = "none"
  /\ bgSnapshot' = NoSize
  /\ bgCrop' = NoCrop
  /\ lastCompress' = NoCall
  /\ againCompress' = NoCall
  /\ UNCHANGED <<overlayVars, panelVars, restVars>>

\* the response reaches the side panel: handleScreen / handleSnipComplete goes on to
\* the fetch of sendMessage or returns; the worker's handler has returned
PanelCaptureResponse ==
  /\ alertNow = ""
  /\ bgPc = "done"
  /\ capturing # <<>>
  /\ bgRequest = AsMessage(Head(capturing))
  /\ bgResponses # <<>>
  /\ CommitPanel(IF bgRequest.type = "CAPTURE_SNIP"
                   THEN handleSnipComplete(PanelState, bgResponses[1])
                   ELSE handleScreen(PanelState, bgResponses[1]))
  /\ capturing' = Tail(capturing)
  /\ bgPc' = "idle"
  /\ bgRequest' = NoRequest
  /\ bgImage' = NoImage
  /\ bgResponses' = <<>>
  /\ bgTab' = "none"
  /\ bgSnapshot' = NoSize
  /\ bgCrop' = NoCrop
  /\ lastCompress' = NoCall
  /\ againCompress' = NoCall
  /\ UNCHANGED <<overlayVars, restVars>>

\* the service worker stops while its handler is suspended at an await: the channel
\* closes and the callback of chrome.runtime.sendMessage runs without a response
CaptureChannelCloses ==
  /\ alertNow = ""
  /\ bgPc \in {"query", "capture", "crop", "compress"}
  /\ capturing # <<>>
  /\ bgRequest = AsMessage(Head(capturing))
  /\ CommitPanel(IF bgRequest.type = "CAPTURE_SNIP"
                   THEN handleSnipComplete(PanelState, UndefinedResponse)
                   ELSE handleScreen(PanelState, UndefinedResponse))
  /\ capturing' = Tail(capturing)
  /\ bgPc' = "idle"
  /\ bgRequest' = NoRequest
  /\ bgImage' = NoImage
  /\ bgResponses' = <<>>
  /\ bgTab' = "none"
  /\ bgSnapshot' = NoSize
  /\ bgCrop' = NoCrop
  /\ lastCompress' = NoCall
  /\ againCompress' = NoCall
  /\ UNCHANGED <<overlayVars, restVars>>

\* a fetch of sendMessage settles
FetchSettles ==
  /\ alertNow = ""
  /\ \E i \in 1..Len(fetches), outcome \in FetchOutcomes :
       CommitPanel(sendMessageSettled(PanelState, i, outcome))
  /\ UNCHANGED <<capturing, overlayVars, captureVars, restVars>>

\* the user dismisses the alert
DismissAlert ==
  /\ alertNow # ""
  /\ alertNow' = ""
  /\ UNCHANGED <<sending, optimisticMessages, error, capturing, fetches, messageListeners>>
  /\ UNCHANGED <<overlayVars, captureVars, restVars>>

\* the lengths of the data URLs in the runs of the side panel: a short one and the
\* longest one
PanelLens == {LenStep, LenStep * MaxLenIdx}
PanelSized ==
  /\ bgImage = NoImage \/ bgImage.len \in PanelLens
  /\ lastCompress.called =>
       (lastCompress.env.fail # "none" \/ lastCompress.env.outLen \in PanelLens)

\* the awaits of the capture handlers with data URLs of these lengths
PanelCaptureVisibleTab == BgCaptureVisibleTab /\ PanelSized'
PanelCrop == BgCrop /\ PanelSized'
PanelCompress == BgCompress /\ PanelSized'

PanelNext ==
  \/ ClickScreen
  \/ ClickSnip
  \/ DragStart
  \/ DragEnd
  \/ PanelDprChange
  \/ BgReceiveFromPanel
  \/ BgQueryTab
  \/ PanelCaptureVisibleTab
  \/ PanelCrop
  \/ PanelCompress
  \/ PanelCaptureResponse
  \/ CaptureChannelCloses
  \/ DismissAlert
  \/ FetchSettles

(***************************************************************************)
(* handleSnip of the side panel, one click on Snip.  Its awaits and         *)
(* callbacks are steps: chrome.tabs.query, the callback of the first       *)
(* chrome.tabs.sendMessage, the callback of chrome.scripting.executeScript, *)
(* the timer, the callback of the second chrome.tabs.sendMessage.  A       *)
(* START_SNIP message reaches the content script, which answers at once,   *)
(* within the step of the callback.                                        *)
(***************************************************************************)
\* handleSnip when it is not running and has not run
NoSnipRun ==
  [pc |-> "idle", sent |-> 0, tab |-> "none", url |-> "none", first |-> "none",
   inject |-> "none", outcome |-> "none"]

\* what chrome.tabs.query({ active: true, currentWindow: true }) gives handleSnip, and
\* what tab.url is: a regular page, a restricted page, or undefined when the
\* extension may not see the URL
SnipTabs ==
  [tab : {"tab"}, url : {"https://", "chrome://", "chrome-extension://", "undefined"}]
    \cup [tab : {"no id", "no tab", "rejects"}, url : {"none"}]

\* the page of the active tab as a newly loaded document leaves the content script
FreshContent ==
  [ContentState EXCEPT !.isSnipping = FALSE, !.overlay = null, !.startX = 0, !.startY = 0,
                       !.selectionBox = NullBox,
                       !.documentBody = [overlays |-> 0, boxes |-> 0],
                       !.windowListeners = {}, !.documentListeners = {},
                       !.overlayListeners = {}]

SnipInit ==
  /\ snipRun = NoSnipRun
  /\ contentLoaded = TRUE

\* click on Snip (disabled={sending}): handleSnip starts and awaits chrome.tabs.query
SnipClick ==
  /\ alertNow = ""
  /\ ~sending
  /\ snipRun.pc = "idle"
  /\ snipRun' = [NoSnipRun EXCEPT !.pc = "query"]
  /\ UNCHANGED <<contentLoaded, authVars, multiCall>>
  /\ UNCHANGED <<overlayVars, captureVars, panelVars>>

\* const [tab] = await chrome.tabs.query(...); the tests of tab.id and tab.url; the
\* first chrome.tabs.sendMessage(tab.id, { type: 'START_SNIP' }, callback)
SnipQueryTab ==
  /\ alertNow = ""
  /\ snipRun.pc = "query"
  /\ \E t \in SnipTabs :
       LET run == [snipRun EXCEPT !.tab = t.tab, !.url = t.url]
       IN CASE t.tab \in {"rejects", "no tab"} ->
                 /\ snipRun' = [run EXCEPT !.pc = "idle", !.outcome = "alert"]
                 /\ alertNow' = "Failed to start snip mode: "
            [] t.tab = "no id" ->
                 /\ snipRun' = [run EXCEPT !.pc = "idle", !.outcome = "alert"]
                 /\ alertNow' = "Failed to start snip mode: No active tab"
            [] t.tab = "tab" /\ t.url \in {"chrome://", "chrome-extension://"} ->
                 /\ snipRun' = [run EXCEPT !.pc = "idle", !.outcome = "alert"]
                 /\ alertNow' = "Cannot use snip mode on this page. Please try on a regular website."
            [] OTHER ->
                 /\ snipRun' = [run EXCEPT !.pc = "first", !.sent = 1]
                 /\ alertNow' = alertNow
  /\ UNCHANGED <<sending, optimisticMessages, error, capturing, fetches, messageListeners>>
  /\ UNCHANGED <<contentLoaded, authVars, multiCall>>
  /\ UNCHANGED <<overlayVars, captureVars>>

\* the callback of the first chrome.tabs.sendMessage: with a content script in the tab
\* the message was handled and answered; without one chrome.runtime.lastError is set
\* and chrome.scripting.executeScript({ files: ['content.js'] }, callback) is called
SnipFirstCallback ==
  /\ alertNow = ""
  /\ snipRun.pc = "first"
  /\ IF contentLoaded
       THEN LET r == onMessage(ContentState, [type |-> "START_SNIP"])
            IN /\ CommitContent(r.state)
               /\ snipRun' = [snipRun EXCEPT !.pc = "idle", !.first = "ok",
                                             !.outcome = "armed"]
       ELSE /\ snipRun' = [snipRun EXCEPT !.pc = "inject", !.first = "failed"]
            /\ UNCHANGED overlayVars
  /\ UNCHANGED <<contentLoaded, authVars, multiCall>>
  /\ UNCHANGED <<panelVars, captureVars>>

\* the callback of executeScript that sets the timer for the retry whatever
\* chrome.runtime.lastError says
SnipInjected_RetryAnyway ==
  /\ alertNow = ""
  /\ snipRun.pc = "inject"
  /\ \E injected \in BOOLEAN :
       /\ contentLoaded' = (contentLoaded \/ injected)
       /\ snipRun' = [snipRun EXCEPT !.pc = "timer",
                                     !.inject = IF injected THEN "ok" ELSE "failed"]
       /\ alertNow' = alertNow
  /\ UNCHANGED <<sending, optimisticMessages, error, capturing, fetches, messageListeners>>
  /\ UNCHANGED <<authVars, multiCall>>
  /\ UNCHANGED <<overlayVars, captureVars>>

\* the callback of chrome.scripting.executeScript: an alert when the injection failed,
\* otherwise setTimeout(..., 100)
SnipInjected ==
  /\ alertNow = ""
  /\ snipRun.pc = "inject"
  /\ \E injected \in BOOLEAN :
       IF injected
         THEN /\ contentLoaded' = TRUE
              /\ snipRun' = [snipRun EXCEPT !.pc = "timer", !.inject = "ok"]
              /\ alertNow' = alertNow
         ELSE /\ contentLoaded' = contentLoaded
              /\ snipRun' = [snipRun EXCEPT !.pc = "idle", !.inject = "failed",
                                            !.outcome = "alert"]
              /\ alertNow' = "Failed to start snip mode: Could not inject content script. Error: "
  /\ UNCHANGED <<sending, optimisticMessages, error, capturing, fetches, messageListeners>>
  /\ UNCHANGED <<authVars, multiCall>>
  /\ UNCHANGED <<overlayVars, captureVars>>

\* the timer fires: the second chrome.tabs.sendMessage(tab.id, { type: 'START_SNIP' })
SnipTimer ==
  /\ alertNow = ""
  /\ snipRun.pc = "timer"
  /\ snipRun' = [snipRun EXCEPT !.pc = "second", !.sent = @ + 1]
  /\ UNCHANGED <<contentLoaded, authVars, multiCall>>
  /\ UNCHANGED <<overlayVars, captureVars, panelVars>>

\* the callback of the second chrome.tabs.sendMessage
SnipSecondCallback ==
  /\ alertNow = ""
  /\ snipRun.pc = "second"
  /\ IF contentLoaded
       THEN LET r == onMessage(ContentState, [type |-> "START_SNIP"])
            IN /\ CommitContent(r.state)
               /\ snipRun' = [snipRun EXCEPT !.pc = "idle", !.outcome = "armed"]
               /\ alertNow' = alertNow
       ELSE /\ snipRun' = [snipRun EXCEPT !.pc = "idle", !.outcome = "alert"]
            /\ alertNow' = "Failed to start snip mode even after injection: "
            /\ UNCHANGED overlayVars
  /\ UNCHANGED <<sending, optimisticMessages, error, capturing, fetches, messageListeners>>
  /\ UNCHANGED <<contentLoaded, authVars, multiCall>>
  /\ UNCHANGED captureVars

\* the active tab loads another page, with or without a content script of the
\* extension in it
TabNavigates ==
  /\ \E loaded \in BOOLEAN : contentLoaded' = loaded
  /\ CommitContent(FreshContent)
  /\ UNCHANGED <<snipRun, authVars, multiCall>>
  /\ UNCHANGED <<panelVars, captureVars>>

SnipNext ==
  \/ SnipClick
  \/ SnipQueryTab
  \/ SnipFirstCallback
  \/ SnipInjected
  \/ SnipTimer
  \/ SnipSecondCallback
  \/ TabNavigates
  \/ DismissAlert
  \/ DragStart

(***************************************************************************)
(* The auth bridge.  The content script's window message listener forwards *)
(* FRATGPT_SET_TOKEN / FRATGPT_REMOVE_TOKEN to the service worker, whose    *)
(* onMessage listener writes chrome.storage.sync and answers from the      *)
(* storage callback; the bridge posts the answer back to the page.  One    *)
(* forwarded message is followed at a time.                                *)
(***************************************************************************)
COMPANION_ORIGIN == "https://fratgpt.co"
Origins == {COMPANION_ORIGIN, "https://other.example"}

\* event.data.token: absent (NoToken stands for undefined), empty, or a token
NoToken == "<undefined>"
MessageTokens == {NoToken, "", "tokenA", "tokenB"}

\* !message.token
Falsy(token) == token \in {NoToken, ""}

\* event.data of the window messages that pages post
WindowData ==
  [type : {"FRATGPT_SET_TOKEN"}, token : MessageTokens]
    \cup [type : {"FRATGPT_REMOVE_TOKEN", "FRATGPT_AUTH_RESPONSE"}, token : {NoToken}]

NoAuthRequest == [type |-> "none", token |-> NoToken, from |-> "none", lastError |-> FALSE]

AuthInit ==
  /\ pageOrigin = COMPANION_ORIGIN
  /\ authPc = "idle"
  /\ authRequest = NoAuthRequest
  /\ authResponses = <<>>
  /\ storedToken = ""
  /\ tokenFrom = "none"

\* a page loads in the tab and the content script with it: declared for the page or
\* put there by handleSnip (chrome.scripting.executeScript, files: ['content.js'])
PageLoads ==
  /\ authPc = "idle"
  /\ \E origin \in Origins : pageOrigin' = origin
  /\ UNCHANGED <<authPc, authRequest, authResponses, storedToken, tokenFrom>>
  /\ UNCHANGED <<snipVars, multiCall>>
  /\ UNCHANGED <<overlayVars, captureVars, panelVars>>

\* window.addEventListener('message', (event) => ...): a message whose origin is not
\* window.location.origin is dropped, FRATGPT_SET_TOKEN and FRATGPT_REMOVE_TOKEN go
\* to the service worker with chrome.runtime.sendMessage
WindowMessage ==
  /\ authPc = "idle"
  /\ \E origin \in Origins, data \in WindowData :
       IF origin # pageOrigin
         THEN UNCHANGED <<authPc, authRequest>>
       ELSE IF data.type = "FRATGPT_SET_TOKEN"
         THEN /\ authPc' = "sent"
              /\ authRequest' = [type |-> "SET_TOKEN", token |-> data.token,
                                 from |-> origin, lastError |-> FALSE]
       ELSE IF data.type = "FRATGPT_REMOVE_TOKEN"
         THEN /\ authPc' = "sent"
              /\ authRequest' = [type |-> "REMOVE_TOKEN", token |-> NoToken,
                                 from |-> origin, lastError |-> FALSE]
       ELSE UNCHANGED <<authPc, authRequest>>
  /\ UNCHANGED <<pageOrigin, authResponses, storedToken, tokenFrom>>
  /\ UNCHANGED <<snipVars, multiCall>>
  /\ UNCHANGED <<overlayVars, captureVars, panelVars>>

\* the onMessage listener that hands every SET_TOKEN to chrome.storage.sync.set
BgTokenReceive_NoGuard ==
  /\ authPc = "sent"
  /\ authPc' = "storage"
  /\ UNCHANGED authResponses
  /\ UNCHANGED <<pageOrigin, authRequest, storedToken, tokenFrom>>
  /\ UNCHANGED <<snipVars, multiCall>>
  /\ UNCHANGED <<overlayVars, captureVars, panelVars>>

\* chrome.runtime.onMessage listener of the service worker, SET_TOKEN and REMOVE_TOKEN:
\* if (!message.token) sendResponse({ success: false, error: 'No token provided' }),
\* otherwise chrome.storage.sync.set / remove is called; the sender is not looked at
BgTokenReceive ==
  /\ authPc = "sent"
  /\ IF authRequest.type = "SET_TOKEN" /\ Falsy(authRequest.token)
       THEN /\ authResponses' =
                 Append(authResponses, [success |-> FALSE, error |-> "No token provided"])
            /\ authPc' = "done"
       ELSE /\ authPc' = "storage"
            /\ UNCHANGED authResponses
  /\ UNCHANGED <<pageOrigin, authRequest, storedToken, tokenFrom>>
  /\ UNCHANGED <<snipVars, multiCall>>
  /\ UNCHANGED <<overlayVars, captureVars, panelVars>>

\* the callback of chrome.storage.sync.set / remove: chrome.runtime.lastError set or not
StorageCallback ==
  /\ authPc = "storage"
  /\ \E lastError \in BOOLEAN :
       /\ authRequest' = [authRequest EXCEPT !.lastError = lastError]
       /\ IF lastError
            THEN /\ authResponses' =
                      Append(authResponses,
                             [success |-> FALSE, error |-> "chrome.runtime.lastError.message"])
                 /\ UNCHANGED <<storedToken, tokenFrom>>
            ELSE /\ authResponses' = Append(authResponses, [success |-> TRUE])
                 /\ storedToken' = IF authRequest.type = "SET_TOKEN"
                                     THEN authRequest.token ELSE ""
                 /\ tokenFrom' = authRequest.from
  /\ authPc' = "done"
  /\ UNCHANGED pageOrigin
  /\ UNCHANGED <<snipVars, multiCall>>
  /\ UNCHANGED <<overlayVars, captureVars, panelVars>>

\* the callback the bridge gave chrome.runtime.sendMessage: it posts
\* FRATGPT_AUTH_RESPONSE to the page, which its own listener does not forward
BridgeCallback ==
  /\ authPc = "done"
  /\ authPc' = "idle"
  /\ authRequest' = NoAuthRequest
  /\ authResponses' = <<>>
  /\ UNCHANGED <<pageOrigin, storedToken, tokenFrom>>
  /\ UNCHANGED <<snipVars, multiCall>>
  /\ UNCHANGED <<overlayVars, captureVars, panelVars>>

AuthNext ==
  \/ PageLoads
  \/ WindowMessage
  \/ BgTokenReceive
  \/ StorageCallback
  \/ BridgeCallback

MultiInit == multiCall = NoMultiCall

Init == OverlayInit /\ CaptureInit /\ PanelInit /\ SnipInit /\ AuthInit /\ MultiInit
Next == OverlayNext
Spec == Init /\ [][Next]_vars

\* the background service worker and compressBase64Image on their own
SpecCapture == Init /\ [][CaptureNext]_vars

\* the awaits of the capture handlers settle: the browser resolves or rejects the
\* promises of tabs.query, captureVisibleTab, createImageBitmap, convertToBlob and of
\* the compression library
SpecCaptureFair ==
  /\ Init
  /\ [][CaptureNext]_vars
  /\ WF_vars(BgQueryTab)
  /\ WF_vars(BgCaptureVisibleTab)
  /\ WF_vars(BgCrop)
  /\ WF_vars(BgCompress)

\* the side panel, the content script it arms and the service worker it asks
SpecPanel == Init /\ [][PanelNext]_vars

\* the auth bridge and the token handlers; the service worker runs its listener for
\* every message and chrome.storage runs every callback
SpecAuth ==
  /\ Init
  /\ [][AuthNext]_vars
  /\ WF_vars(BgTokenReceive)
  /\ WF_vars(StorageCallback)
  /\ WF_vars(BridgeCallback)

\* compressMultipleImages on its own
SpecMultiple == Init /\ [][MultipleNext]_vars

\* one click on Snip after the other; the browser runs every callback it was given and
\* settles the promise of tabs.query
SpecSnip ==
  /\ Init
  /\ [][SnipNext]_vars
  /\ WF_vars(SnipQueryTab)
  /\ WF_vars(SnipFirstCallback)
  /\ WF_vars(SnipInjected)
  /\ WF_vars(SnipTimer)
  /\ WF_vars(SnipSecondCallback)

(***************************************************************************)
(* Properties of the snip overlay.                                         *)
(***************************************************************************)
Idle == ~isSnipping
TornDown ==
  /\ ~isSnipping
  /\ overlay = null
  /\ selectionBox = NullBox
  /\ documentBody = [overlays |-> 0, boxes |-> 0]

\* lastEvent was a pointer-up that ended a drag (a pointer-down had been recorded)
DragEnded == lastEvent.type = "mouseup" /\ phaseBefore = "dragging"
\* the drag's extent in CSS pixels; pointer-up leaves startX and startY as they were
DragWidth == Abs(lastEvent.clientX - startX)
DragHeight == Abs(lastEvent.clientY - startY)
TooSmall == DragWidth < 10 \/ DragHeight < 10
CssRect == [x |-> Min(lastEvent.clientX, startX), y |-> Min(lastEvent.clientY, startY),
            width |-> DragWidth, height |-> DragHeight]
SnipCompleteSent == {sentNow[i] : i \in {j \in 1..Len(sentNow) : sentNow[j].type = "SNIP_COMPLETE"}}

\* C1: a drag whose pointer-up is less than 10 CSS pixels from its pointer-down in x or
\* in y emits no SNIP_COMPLETE, and the overlay is torn down as for a cancellation
\* (snipping flag false, overlay and selection box removed).
C1_TooSmallDragIsCancelled ==
  (DragEnded /\ TooSmall) => (sentNow = <<>> /\ snipCompleteCount = 0 /\ TornDown)

C1_Witness == DragEnded /\ TooSmall /\ prevKind = "mousedown" /\ DragWidth >= 10

\* C2: START_SNIP received while the overlay is armed or dragging changes nothing: no
\* second overlay or selection box, no additional listeners, the recorded drag start and
\* every other overlay variable as before; at most one overlay session is ever active.
C2_SecondStartIsNoOp ==
  /\ [](documentBody.overlays <= 1 /\ documentBody.boxes <= 1)
  /\ [][(lastEvent'.type = "START_SNIP" /\ isSnipping) =>
          UNCHANGED <<isSnipping, overlay, startX, startY, selectionBox, documentBody,
                      windowListeners, documentListeners, overlayListeners,
                      devicePixelRatio>>]_vars

C2_Witness ==
  /\ lastEvent.type = "START_SNIP"
  /\ phaseBefore = "dragging"
  /\ isSnipping
  /\ selectionBox.display = "block"
  /\ startX > 0

\* C3: each activation emits at most one SNIP_COMPLETE; a drag of at least 10x10 CSS
\* pixels emits exactly one although the pointer handlers are registered on the overlay
\* and on the window; no event other than the pointer-up of a drag emits one, so after
\* the emission nothing more is emitted until a new START_SNIP.
C3_OneSnipCompletePerActivation ==
  /\ snipCompleteCount <= 1
  /\ Len(sentNow) <= 1
  /\ (DragEnded /\ ~TooSmall) => (Len(sentNow) = 1 /\ Cardinality(SnipCompleteSent) = 1)
  /\ sentNow # <<>> => (lastEvent.type = "mouseup" /\ phaseBefore # "idle")
  /\ (lastEvent.type = "mouseup" /\ phaseBefore = "idle") => sentNow = <<>>

C3_Witness ==
  /\ lastEvent.type = "mouseup"
  /\ phaseBefore = "idle"
  /\ prevKind = "mouseup"
  /\ snipCompleteCount = 1
  /\ sentNow = <<>>

\* listeners of the content script that an event of the page can still reach
InstalledListeners ==
  Cardinality(windowListeners) + Cardinality(documentListeners)
    + (IF documentBody.overlays > 0 THEN Cardinality(overlayListeners) ELSE 0)

\* C4: whenever the overlay is idle, whatever the exit path, the overlay element and the
\* selection box are out of the page, the pointer listeners are off the overlay and off
\* the window, the keydown listener is off the document: no element, no listener is left.
C4_TeardownLeavesNothing ==
  Idle => /\ TornDown
          /\ overlayListeners \cap PointerTypes = {}
          /\ windowListeners = {}
          /\ documentListeners = {}
          /\ InstalledListeners = 0

C4_Witness ==
  /\ Idle
  /\ DragEnded
  /\ sentNow # <<>>
  /\ prevKind = "mousemove"

Cancelling == EvKind(lastEvent) \in {"Escape", "contextmenu", "CANCEL_SNIP"}

\* C5: Escape, contextmenu on the overlay and CANCEL_SNIP take the overlay from armed or
\* dragging to idle, emit no SNIP_COMPLETE and answer no error; a pointer-up that
\* arrives after the cancellation emits nothing.
C5_CancelIsSilent ==
  /\ Cancelling => /\ TornDown
                   /\ sentNow = <<>>
                   /\ \A i \in 1..Len(responseNow) : responseNow[i] = [success |-> TRUE]
  /\ (lastEvent.type = "mouseup" /\ prevKind \in {"Escape", "contextmenu", "CANCEL_SNIP"})
       => sentNow = <<>>

C5_Witness ==
  /\ EvKind(lastEvent) = "Escape"
  /\ phaseBefore = "dragging"
  /\ Idle

Calls == {c \in {lastCompress, againCompress} : c.called}

\* the call returned at the "skipping compression" test
Skipped(c) == Settings(c.options).skipIfSmall /\ SizeKB(c.input.len) < 500
\* the call went on to convert and compress, and one of its awaits failed
AwaitFailed(c) ==
  /\ ~Skipped(c)
  /\ \/ c.input.kind = "garbage"
     \/ c.env.fail \in {"decode", "library", "encode"}
\* the result hands the input back: same string, same size twice, no reduction
HandsBackInput(c) ==
  /\ ~c.out.threw
  /\ c.out.value.compressed = c.input
  /\ c.out.value.compressedSize = c.out.value.originalSize
  /\ c.out.value.reductionPercent = Num(0)

LastResponse == bgResponses[Len(bgResponses)]
\* the capture handler got as far as compressBase64Image and has finished
CompressedAndDone == bgPc = "done" /\ lastCompress.called

\* C7: compressBase64Image never throws; when the decode, the library call or the
\* re-encoding fails its result is the input unchanged with compressedSize equal to
\* originalSize and reductionPercent 0, and the capture handler that called it answers
\* with that image, never with {error}.
C7_CompressionNeverThrows ==
  /\ \A c \in Calls : ~c.out.threw /\ (AwaitFailed(c) => HandsBackInput(c))
  /\ CompressedAndDone =>
       /\ Len(bgResponses) = 1
       /\ IsArtifact(LastResponse)
       /\ ~IsError(LastResponse)
       /\ LastResponse.imageData = lastCompress.out.value.compressed

C7_Witness ==
  /\ CompressedAndDone
  /\ bgRequest.type = "CAPTURE_SNIP"
  /\ AwaitFailed(lastCompress)
  /\ lastCompress.env.fail = "library"
  /\ IsArtifact(LastResponse)
  /\ LastResponse.imageData = bgImage

\* C8: an input whose estimated size is below 500 KB, compressed with skipIfSmall true,
\* comes back identical with reductionPercent 0 and compressedSize equal to
\* originalSize, the library is not called; compressing the output again gives the same
\* output.
C8_SkipIfSmallIsIdentity ==
  /\ \A c \in Calls : Skipped(c) => (HandsBackInput(c) /\ ~c.out.libraryCalled)
  /\ (lastCompress.called /\ Skipped(lastCompress) /\ againCompress.called) =>
       againCompress.out = lastCompress.out

C8_Witness ==
  /\ againCompress.called
  /\ Skipped(lastCompress)
  /\ lastCompress.input.len = 681983
  /\ lastCompress.options = SnipOptions
  /\ againCompress.env.fail = "none"
  /\ againCompress.out.value.compressed = lastCompress.input

\* the library, where it ran to the end, kept its output within settings.maxSizeMB
LibraryKeptBudget(c) ==
  (c.out.libraryCalled /\ ~c.out.failed) =>
    SizeKB(c.env.outLen) <= Settings(c.options).maxSizeMB

\* C9: every artifact of a region snip (maxSizeMB 0.3) has compressedSize <= 300 KB or
\* is the original crop handed back because compression failed; no crop between 300 KB
\* and 500 KB is returned uncompressed when compression did not fail.  (Stated for a
\* library that keeps to its budget.)
C9_SnipArtifactWithinBudget ==
  (CompressedAndDone /\ bgRequest.type = "CAPTURE_SNIP" /\ IsArtifact(LastResponse)
     /\ LibraryKeptBudget(lastCompress)) =>
    \/ LastResponse.compressionStats.compressedSize <= 300
    \/ AwaitFailed(lastCompress) /\ LastResponse.imageData = bgImage

SizesFromLengths(c) ==
  /\ c.out.value.originalSize = SizeKB(c.input.len)
  /\ c.out.value.compressedSize = SizeKB(c.out.value.compressed.len)
FormulaHolds(c) ==
  c.out.value.reductionPercent =
    ReductionPercent(c.out.value.originalSize, c.out.value.compressedSize)

\* C10 as claimed: in every result reductionPercent equals
\* round((originalSize - compressedSize) / originalSize * 100) of the result's own size
\* fields, both sizes are round(length * 0.75 / 1024), and reductionPercent is 0
\* whenever compression was skipped or failed.
C10_PercentMatchesSizes ==
  \A c \in Calls :
    /\ FormulaHolds(c)
    /\ SizesFromLengths(c)
    /\ (Skipped(c) \/ AwaitFailed(c)) => c.out.value.reductionPercent = Num(0)

\* C10 amended: both sizes are round(length * 0.75 / 1024); reductionPercent is 0
\* whenever compression was skipped or failed; it equals
\* round((originalSize - compressedSize) / originalSize * 100) of the result's own size
\* fields in every result except a skipped or failed one whose originalSize is 0, where
\* the formula gives NaN and the result says 0.
C10_PercentMatchesSizesUnlessZero ==
  \A c \in Calls :
    /\ SizesFromLengths(c)
    /\ (Skipped(c) \/ AwaitFailed(c)) => c.out.value.reductionPercent = Num(0)
    /\ (c.out.value.originalSize # 0 \/ ~(Skipped(c) \/ AwaitFailed(c))) => FormulaHolds(c)
    /\ (c.out.value.originalSize = 0 /\ (Skipped(c) \/ AwaitFailed(c))) =>
         ReductionPercent(c.out.value.originalSize, c.out.value.compressedSize) = NaN

C10_Witness ==
  /\ lastCompress.called
  /\ ~Skipped(lastCompress)
  /\ ~AwaitFailed(lastCompress)
  /\ lastCompress.out.value.originalSize = 500
  /\ lastCompress.out.value.compressedSize = 125
  /\ lastCompress.out.value.reductionPercent = Num(75)

\* a JavaScript number that lies in 0..100
InPercentRange(n) == ~n.nan /\ n.inf = 0 /\ n.val >= 0 /\ n.val <= 100

\* C11: the reductionPercent of every result of compressBase64Image, and so of every
\* compressionStats sent, is a number in the range 0..100, also when the output is
\* larger than the input and when the input's estimated size is 0 KB with skipIfSmall
\* false.
C11_ReductionPercentInRange ==
  /\ \A c \in Calls : InPercentRange(c.out.value.reductionPercent)
  /\ (CompressedAndDone /\ IsArtifact(LastResponse)) =>
       InPercentRange(LastResponse.compressionStats.reductionPercent)

(***************************************************************************)
(* Properties of the crop.                                                 *)
(***************************************************************************)
\* rectangle r lies fully inside an image of the given size
Inside(r, size) ==
  /\ r.x >= 0
  /\ r.y >= 0
  /\ r.x + r.width <= size.width
  /\ r.y + r.height <= size.height
\* rectangle r has no pixel in common with an image of the given size
Misses(r, size) == ClipToImage(r, size) = NoRect
SizeOf(r) == [width |-> r.width, height |-> r.height]
AtOrigin(r) == [x |-> 0, y |-> 0, width |-> r.width, height |-> r.height]
\* a CAPTURE_SNIP request has been answered after its snapshot was taken
SnipAnswered ==
  bgPc = "done" /\ bgRequest.type = "CAPTURE_SNIP" /\ bgSnapshot # NoSize

\* C12: a CAPTURE_SNIP request whose rectangle does not intersect the snapshot is
\* answered with an error and never with an imageData artifact; a rectangle partly
\* outside the snapshot is clamped to the snapshot's bounds before the crop, so that
\* the canvas and the source rectangle are the clamped rectangle.
C12_RegionOutsideIsRejected ==
  /\ (SnipAnswered /\ Misses(bgRequest.coords, bgSnapshot)) =>
       /\ Len(bgResponses) = 1
       /\ IsError(LastResponse)
       /\ ~IsArtifact(LastResponse)
  /\ (bgCrop.drawn /\ ~Misses(bgRequest.coords, bgSnapshot)
        /\ ~Inside(bgRequest.coords, bgSnapshot)) =>
       /\ bgCrop.source = ClipToImage(bgRequest.coords, bgSnapshot)
       /\ bgCrop.canvas = SizeOf(ClipToImage(bgRequest.coords, bgSnapshot))

\* C13: for every snapshot and every rectangle fully inside it the crop makes an image
\* whose width and height are the rectangle's, copied from the snapshot at (x, y) to
\* the destination offset (0, 0), the source and destination rectangles being of equal
\* size (no scaling) and every pixel of the image coming from the rectangle.
C13_CropOfInsideRectIsExact ==
  (bgCrop.drawn /\ Inside(bgRequest.coords, bgSnapshot)) =>
    /\ bgCrop.canvas = SizeOf(bgRequest.coords)
    /\ bgCrop.source = bgRequest.coords
    /\ bgCrop.dest = AtOrigin(bgRequest.coords)
    /\ SizeOf(bgCrop.source) = SizeOf(bgCrop.dest)
    /\ bgCrop.read = bgRequest.coords
    /\ bgCrop.painted = AtOrigin(bgRequest.coords)
    /\ bgCrop.image \in {NoSize, SizeOf(bgRequest.coords)}
    /\ (bgPc = "compress") => bgCrop.image = SizeOf(bgRequest.coords)

C13_Witness ==
  /\ bgPc = "compress"
  /\ bgCrop.drawn
  /\ Inside(bgRequest.coords, bgSnapshot)
  /\ bgRequest.coords = [x |-> 12, y |-> 0, width |-> 36, height |-> 24]
  /\ bgCrop.read = [x |-> 12, y |-> 0, width |-> 36, height |-> 24]
  /\ bgCrop.painted = [x |-> 0, y |-> 0, width |-> 36, height |-> 24]
  /\ bgCrop.image = [width |-> 36, height |-> 24]

(***************************************************************************)
(* Properties of the pipeline from the drag to the crop.                   *)
(***************************************************************************)
Scale(r, d) ==
  [x |-> r.x * d, y |-> r.y * d, width |-> r.width * d, height |-> r.height * d]
\* the service worker has drawn the crop for the oldest waiting call, a snip
CroppedForSnip ==
  /\ capturing # <<>>
  /\ Head(capturing).type = "CAPTURE_SNIP"
  /\ bgRequest = AsMessage(Head(capturing))
  /\ bgCrop.drawn
\* device pixels per CSS pixel of the snapshot that was captured
SnapshotRatio == bgSnapshot.width \div Viewport.width

\* C14: end to end, the source rectangle of the crop is the user's CSS-pixel drag
\* rectangle with x, y, width and height multiplied by the device pixel ratio read at
\* pointer-up exactly once: every CAPTURE_SNIP message carries that rectangle and the
\* crop reads exactly it.
C14_CropRectIsDragTimesRatioOnce ==
  /\ \A i \in 1..Len(capturing) :
       capturing[i].type = "CAPTURE_SNIP" =>
         capturing[i].coords = Scale(capturing[i].css, capturing[i].ratio)
  /\ CroppedForSnip =>
       /\ bgRequest.coords = Scale(Head(capturing).css, Head(capturing).ratio)
       /\ bgCrop.source = Scale(Head(capturing).css, Head(capturing).ratio)

C14_Witness ==
  /\ CroppedForSnip
  /\ Head(capturing).ratio = 2
  /\ Head(capturing).css.x = CoordStep
  /\ Head(capturing).css.width >= MIN_SIZE
  /\ bgCrop.source.x = 2 * CoordStep
  /\ bgCrop.source.width = 2 * Head(capturing).css.width
  /\ bgCrop.source.height = 2 * Head(capturing).css.height

\* C15: the ratio that turns the selection into the crop rectangle is the ratio of the
\* tab when the snapshot is captured: the crop's source rectangle is the drag rectangle
\* times the snapshot's device pixels per CSS pixel, also when the ratio changed
\* between pointer-up and capture.
C15_CropUsesRatioAtCapture ==
  CroppedForSnip =>
    bgCrop.source = Scale(Head(capturing).css, SnapshotRatio)

(***************************************************************************)
(* Properties of the capture handlers' responses.                          *)
(***************************************************************************)
Requested == bgPc = "query"
Answered == bgPc = "done" /\ Len(bgResponses) = 1
WellFormed(r) ==
  \/ IsArtifact(r) /\ ~IsError(r) /\ DOMAIN r = {"imageData", "compressionStats"}
  \/ IsError(r) /\ ~IsArtifact(r) /\ DOMAIN r = {"error"}

\* C16: every CAPTURE_SCREEN and CAPTURE_SNIP request eventually has exactly one
\* response, an artifact {imageData, compressionStats} or {error}, never both and
\* never none, on every path: no response is sent before the handler ends, a finished
\* handler has sent exactly one, and every handler finishes.
C16_ExactlyOneResponse ==
  /\ [](Len(bgResponses) <= 1)
  /\ [](bgResponses # <<>> => (bgPc = "done" /\ WellFormed(bgResponses[1])))
  /\ [](bgPc = "done" => Len(bgResponses) = 1)
  /\ Requested ~> Answered

C16_Witness ==
  /\ Answered
  /\ bgRequest.type = "CAPTURE_SNIP"
  /\ bgCrop.drawn
  /\ bgCrop.image = NoSize
  /\ IsError(LastResponse)
  /\ LastResponse.error = "encode"

\* chrome.tabs.query found no tab, or a tab without id, for the request being handled
NoActiveTab == bgTab \in {"no id", "no tab"}

\* C17: when the tab query returns no tab or a tab without id the request is answered
\* with an error response, no snapshot is taken, no crop and no compression runs, and
\* nothing is retried: the worker takes no further step for the request and the side
\* panel, on the response, sends neither a new capture message nor a fetch.
C17_NoActiveTabIsAnError ==
  /\ [](NoActiveTab =>
          /\ Answered
          /\ IsError(bgResponses[1])
          /\ ~IsArtifact(bgResponses[1])
          /\ bgSnapshot = NoSize
          /\ bgImage = NoImage
          /\ ~bgCrop.drawn
          /\ ~lastCompress.called)
  /\ [][NoActiveTab =>
          \/ UNCHANGED captureVars
          \/ /\ bgPc' = "idle"
             /\ capturing' = Tail(capturing)
             /\ UNCHANGED <<sending, optimisticMessages, error, fetches>>]_vars

C17_Witness ==
  /\ NoActiveTab
  /\ bgTab = "no tab"
  /\ bgRequest.type = "CAPTURE_SNIP"
  /\ capturing # <<>>
  /\ IsError(LastResponse)

\* the position of the capture handler among the stages of one request
Stage ==
  CASE bgPc = "idle"     -> 0
    [] bgPc = "query"    -> 1
    [] bgPc = "capture"  -> 2
    [] bgPc = "crop"     -> 3
    [] bgPc = "compress" -> 4
    [] bgPc = "done"     -> 5

\* C18: for one snip request the stages come in the order select, capture, crop,
\* compress, transmit: a CAPTURE_SNIP is handled only for a finished selection, the
\* crop starts only with the snapshot at hand, the compression only after the crop made
\* its image, the artifact is sent only after the compression returned, and the fetch
\* that carries the image starts only on a response that is not an error.
C18_StagesInOrder ==
  /\ [](bgPc # "idle" =>
          /\ capturing # <<>>
          /\ bgRequest = AsMessage(Head(capturing)))
  /\ []((bgRequest.type = "CAPTURE_SNIP") =>
          /\ Head(capturing).css.width >= MIN_SIZE
          /\ Head(capturing).css.height >= MIN_SIZE
          /\ (bgPc = "crop" \/ bgCrop.drawn) => (bgSnapshot # NoSize /\ bgTab = "tab")
          /\ (bgPc = "crop") => (bgImage.kind = "png" /\ ~bgCrop.drawn)
          /\ (bgPc = "compress" \/ lastCompress.called) =>
               (bgCrop.drawn /\ bgCrop.image = bgCrop.canvas)
          /\ (bgResponses # <<>> /\ IsArtifact(bgResponses[1])) =>
               (lastCompress.called
                  /\ bgResponses[1].imageData = lastCompress.out.value.compressed))
  /\ [][/\ (bgPc' # bgPc) => (Stage' > Stage \/ bgPc' = "idle")
        /\ (Len(fetches') > Len(fetches)) =>
             /\ bgPc = "done"
             /\ IsArtifact(bgResponses[1])
             /\ ~IsError(bgResponses[1])
             /\ capturing' = Tail(capturing)
             /\ fetches'[Len(fetches')].imageData]_vars

C18_Witness ==
  /\ fetches # <<>>
  /\ fetches[Len(fetches)].imageData
  /\ optimisticMessages = Placeholders("SNIP")
  /\ sending
  /\ bgPc = "idle"

(***************************************************************************)
(* Properties of the snip overlay, continued.                              *)
(***************************************************************************)
\* lastEvent was a pointer event that arrived during a drag
DuringDrag == lastEvent.type \in PointerTypes /\ phaseBefore = "dragging"

\* C23: while a drag is in progress every pointer-down, pointer-move and pointer-up
\* event has its default prevented and its propagation stopped, and no listener of the
\* host page runs for it.
C23_HostPageSeesNothingOfDrag ==
  DuringDrag =>
    /\ preventedNow
    /\ stoppedNow
    /\ \A h \in HostListeners : ~HostListenerRuns(h, stoppedNow)

\* C24: SNIP_COMPLETE is emitted only for a drag whose pointer-down arrived in the
\* current activation: a pointer-up that arrives while the overlay is armed, before any
\* pointer-down, emits nothing.
C24_NoSnipCompleteWithoutPointerDown ==
  (lastEvent.type = "mouseup" /\ phaseBefore = "armed") => sentNow = <<>>

(***************************************************************************)
(* Properties of the side panel.                                           *)
(***************************************************************************)
\* C19: at most one capture-crop-compress pipeline is in progress at any time: while
\* one CAPTURE_SCREEN or CAPTURE_SNIP request awaits its response no user action
\* starts a second capture request.
C19_OnePipelineAtATime ==
  Len(capturing) <= 1

\* C20: whenever the outcome of a send has arrived, be it a session, a thrown failure
\* or a response that is not OK, DAILY_LIMIT_REACHED included, the optimistic user
\* message and the "Thinking..." placeholder are removed: no placeholder is displayed
\* while no fetch is in flight.
C20_NoPlaceholderWithoutRequest ==
  fetches = <<>> => optimisticMessages = <<>>

\* the step hands the oldest capture request its outcome, and the outcome is an
\* {error} response or no response at all
CaptureFails ==
  /\ capturing # <<>>
  /\ capturing' = Tail(capturing)
  /\ bgResponses = <<>> \/ HasError(bgResponses[1])

\* C21: when a capture request is answered with {error}, or with no response at all,
\* the side panel tells the user with an alert, creates no optimistic message and
\* starts no request to the backend, so no image is attached to anything.
C21_CaptureFailureIsReported ==
  [][CaptureFails =>
       /\ alertNow = ""
       /\ alertNow' # ""
       /\ fetches' = fetches
       /\ sending' = sending
       /\ optimisticMessages' \in {optimisticMessages, <<>>}]_vars

C21_Witness ==
  /\ alertNow = "Failed to capture screen: "
  /\ fetches = <<>>
  /\ optimisticMessages = <<>>
  /\ ~sending
  /\ bgPc = "idle"

\* the step is the pointer-up that ends a drag
PointerUpEndsDrag == Phase = "dragging" /\ Phase' # "dragging"

\* C22: every SNIP_COMPLETE message the overlay emits leads to exactly one CAPTURE_SNIP
\* request, which carries the rectangle of the message, however often the side panel's
\* message listener was removed and registered again: one listener is registered at a
\* time.
C22_OneCaptureSnipPerSnipComplete ==
  /\ [](Len(messageListeners) = 1)
  /\ [][PointerUpEndsDrag =>
          /\ Len(capturing') = Len(capturing) + CountSnipComplete(sentNow')
          /\ \A i \in 1..Len(sentNow') :
                AsMessage(capturing'[Len(capturing) + i])
                  = [type |-> "CAPTURE_SNIP", coords |-> sentNow'[i].coords]]_vars

C22_Witness ==
  /\ messageListeners = <<[session |-> "data"]>>
  /\ CountSnipComplete(sentNow) = 1
  /\ Len(capturing) = 1
  /\ AsMessage(capturing[1]) = [type |-> "CAPTURE_SNIP", coords |-> sentNow[1].coords]

\* C25: the pointer-up handling that emits SNIP_COMPLETE has taken the overlay down
\* when it ends: the step that starts a CAPTURE_SNIP request leaves the content script
\* idle, with no dimming layer, no selection box and no listener in the page, and they
\* stay away while the capture is taken unless the user arms a new session.
C25_OverlayGoneBeforeCapture ==
  /\ [](sentNow # <<>> => (TornDown /\ InstalledListeners = 0))
  /\ [][(Len(capturing') > Len(capturing)
           /\ capturing'[Len(capturing')].type = "CAPTURE_SNIP") =>
          (TornDown' /\ InstalledListeners' = 0)]_vars

C25_Witness ==
  /\ bgPc = "crop"
  /\ bgRequest.type = "CAPTURE_SNIP"
  /\ CountSnipComplete(sentNow) = 1
  /\ bgRequest.coords = sentNow[1].coords
  /\ TornDown

\* C29: the sending flag is true exactly while a backend request started by
\* sendMessage is outstanding.
C29_SendingIffRequestOutstanding ==
  sending <=> fetches # <<>>

(***************************************************************************)
(* Properties of handleSnip.                                               *)
(***************************************************************************)
\* C26: one click on Snip sends START_SNIP at most twice, the second time only after
\* the first send failed and the content script was injected without error; nothing
\* is sent when there is no active tab or its URL starts with chrome:// or
\* chrome-extension://; and handleSnip always comes to an end, with the overlay armed
\* by the START_SNIP it sent or with an alert.
C26_SnipClickSendsAtMostTwice ==
  /\ [](/\ snipRun.sent <= 2
        /\ (snipRun.sent = 2) => (snipRun.first = "failed" /\ snipRun.inject = "ok")
        /\ (snipRun.sent >= 1) =>
              (snipRun.tab = "tab" /\ snipRun.url \notin {"chrome://", "chrome-extension://"})
        /\ (snipRun.pc = "idle" /\ snipRun.tab # "none") =>
              snipRun.outcome \in {"armed", "alert"})
  /\ [][/\ (snipRun'.outcome = "armed" /\ snipRun.outcome # "armed") =>
             (isSnipping' /\ overlay' # null /\ alertNow' = "")
        /\ (snipRun'.outcome = "alert" /\ snipRun.outcome # "alert") => alertNow' # ""]_vars
  /\ (snipRun.pc # "idle") ~> (snipRun.pc = "idle")

C26_Witness ==
  /\ snipRun.pc = "idle"
  /\ snipRun.sent = 2
  /\ snipRun.outcome = "armed"
  /\ isSnipping

(***************************************************************************)
(* Properties of compressMultipleImages.                                   *)
(***************************************************************************)
\* C30: compressMultipleImages never rejects and returns one result per input image,
\* result i being what compressBase64Image makes of image i (its originalSize is the
\* size of image i), for every list of image strings, the empty list included.
C30_OneResultPerImageInOrder ==
  multiCall.called =>
    /\ ~multiCall.out.threw
    /\ Len(multiCall.out.value) = Len(multiCall.images)
    /\ \A i \in 1..Len(multiCall.images) :
         /\ multiCall.out.value[i].originalSize = SizeKB(multiCall.images[i].len)
         /\ multiCall.out.value[i] =
              compressBase64Image(multiCall.images[i], multiCall.options,
                                  multiCall.envs[i]).value

C30_Witness ==
  /\ multiCall.called
  /\ Len(multiCall.images) = 2
  /\ multiCall.images[1].len = LenStep * MaxLenIdx
  /\ multiCall.images[2].len = LenStep
  /\ multiCall.out.value[1].compressed.kind = "jpeg"
  /\ multiCall.out.value[2].compressed = multiCall.images[2]

(***************************************************************************)
(* Properties of the auth bridge and of the token handlers.                *)
(***************************************************************************)
\* C27: only window messages that come from the companion site are forwarded to the
\* service worker, and only they change the stored token.
C27_OnlyCompanionSiteChangesToken ==
  /\ authRequest.from \in {"none", COMPANION_ORIGIN}
  /\ tokenFrom \in {"none", COMPANION_ORIGIN}

\* the request has been answered
TokenAnswered == authPc = "done"

\* C28: a SET_TOKEN without a token or with an empty one is answered with
\* {success: false, error: 'No token provided'} and never reaches the storage, so the
\* stored token stays as it was; a storage operation that reports an error is
\* answered with success false; every SET_TOKEN and REMOVE_TOKEN is answered, exactly
\* once.
C28_TokenRequestsAnsweredOnce ==
  /\ [](/\ Len(authResponses) <= 1
        /\ authPc \in {"sent", "storage"} => authResponses = <<>>
        /\ TokenAnswered => Len(authResponses) = 1
        /\ (authPc = "storage" /\ authRequest.type = "SET_TOKEN") =>
              ~Falsy(authRequest.token)
        /\ (TokenAnswered /\ authRequest.lastError) => ~authResponses[1].success)
  /\ [][(authPc = "sent" /\ authPc' # "sent"
           /\ authRequest.type = "SET_TOKEN" /\ Falsy(authRequest.token)) =>
          /\ authResponses' = <<[success |-> FALSE, error |-> "No token provided"]>>
          /\ storedToken' = storedToken]_vars
  /\ [][(authPc = "storage" /\ authRequest'.lastError) =>
          (storedToken' = storedToken /\ ~authResponses'[1].success)]_vars
  /\ (authPc = "sent") ~> TokenAnswered

C28_Witness ==
  /\ TokenAnswered
  /\ authRequest.type = "SET_TOKEN"
  /\ authRequest.token = ""
  /\ authResponses = <<[success |-> FALSE, error |-> "No token provided"]>>
  /\ storedToken = "tokenA"

====
